---------------------------- MODULE Spec2Model ----------------------------
(***************************************************************************)
(* Model of the columnar execution core: the open-addressing HashTable,    *)
(* ColumnNullable / ColumnDecimal / ColumnConst and the null-skipping      *)
(* aggregate adapter.  Each subsystem has its own specification over the   *)
(* shared variable list; the variables of the other subsystems stay at     *)
(* their initial values.                                                   *)
(***************************************************************************)
EXTENDS Integers, Sequences, FiniteSets, TLC

(***************************************************************************)
(* Bounds of the model.                                                    *)
(***************************************************************************)
\* keys are 0..MaxKey; 0 is the zero key (ZeroTraits::check)
MaxKey == 4
\* template parameter initial_size_degree of the grower instance modelled
InitialSizeDegree == 1
\* emplace is not offered once the grower has reached this degree
MaxDegree == 5
\* the constructor reserves for at most MaxReserve elements
MaxReserve == 3
\* columns hold at most MaxLen rows
MaxLen == 2
\* the holders C and D have at most MaxSrcLen rows
MaxSrcLen == 2
\* an aggregate state is fed at most MaxRows rows, the merged state MaxRhsRows
MaxRows == 3
MaxRhsRows == 1
\* insertResultInto is offered until the target has MaxResults rows
MaxResults == 1

VARIABLES
    \* ---- HashTable (hash_table.h) ----
    buf,          \* Cell * buf: bucket index -> key, 0 = empty cell
    m_size,       \* size_t m_size
    size_degree,  \* grower.size_degree
    has_zero,     \* ZeroValueStorage::has_zero
    hashOf,       \* the Hash functor: key -> size_t, fixed at construction
    reserve,      \* history: reserve_for_num_elements of the constructor
    emplaced,     \* history: keys whose emplace returned normally, keys copied in
    ret,          \* history: the last call, its outputs and the table before it
    \* ---- ColumnNullable over a ColumnDecimal (column_nullable.cpp) ----
    ncol,         \* [nested_column |-> [data, scale], null_map |-> bytes]
    nret,         \* history: the last column operation and whether it threw
    \* ---- column holders (column_const.h, ColumnConst.cpp) ----
    heap,         \* address -> column object
    colC,         \* the holder C: [const, ptr, s]
    colD,         \* the holder D obtained from C
    cowret,       \* history: the last operation and what C showed at construction
    \* ---- AggregateFunctionNullUnary (data_types_number.h) ----
    result_is_nullable, \* the template parameter
    aplace,       \* the aggregate state: [flag, nested]
    rhs,          \* a second state of the same function, merged into place
    fed,          \* history: the rows folded into each state, in order
    to,           \* the target column of insertResultInto
    aret,         \* history: the last call, the state and target before it
    \* ---- functions of their arguments alone ----
    fret          \* [fn, done, in, out]: the function called, its arguments and result

htVars == <<buf, m_size, size_degree, has_zero, hashOf, reserve, emplaced, ret>>

nullableVars == <<ncol, nret>>

cowVars == <<heap, colC, colD, cowret>>

aggVars == <<result_is_nullable, aplace, rhs, fed, to, aret>>

fnVars == <<fret>>

vars == <<buf, m_size, size_degree, has_zero, hashOf, reserve, emplaced, ret, ncol, nret,
          heap, colC, colD, cowret, result_is_nullable, aplace, rhs, fed, to, aret,
          fret>>

(***************************************************************************)
(* HashTableGrower                                                         *)
(***************************************************************************)
RECURSIVE Pow2(_)
Pow2(n) == IF n <= 0 THEN 1 ELSE 2 * Pow2(n - 1)

bufSize(deg) == Pow2(deg)

maxFill(deg) == Pow2(deg - 1)

\* x & mask() with mask() = bufSize() - 1
place(deg, x) == x % bufSize(deg)

next(deg, pos) == (pos + 1) % bufSize(deg)

overflowOffByOne(deg, elems) == elems > maxFill(deg) + 1

overflow(deg, elems) == elems > maxFill(deg)

increaseSize(deg) == deg + (IF deg >= 23 THEN 1 ELSE 2)

\* static_cast<size_t>(log2(x)) for x >= 1
RECURSIVE Log2(_)
Log2(x) == IF x <= 1 THEN 0 ELSE 1 + Log2(x \div 2)

\* HashTableGrower::set(num_elems): the size degree chosen
setOneDegreeLess(num_elems) ==
    IF num_elems <= 1 THEN InitialSizeDegree
    ELSE IF InitialSizeDegree > Log2(num_elems - 1) + 1 THEN InitialSizeDegree
    ELSE Log2(num_elems - 1) + 1

set(num_elems) ==
    IF num_elems <= 1 THEN InitialSizeDegree
    ELSE IF InitialSizeDegree > Log2(num_elems - 1) + 2 THEN InitialSizeDegree
    ELSE Log2(num_elems - 1) + 2

(***************************************************************************)
(* HashTable internals                                                     *)
(***************************************************************************)
Keys == 0 .. MaxKey

NonZeroKeys == 1 .. MaxKey

\* values the Hash functor may return; chosen so that chains collide and
\* wrap around the end of the buffer at every degree reached
HashVals == {6, 7, 14, 15}

\* keys are only hashed and compared for equality, so every Hash functor is a
\* relabelling of one that is monotone in the key
HashFunctors ==
    {h \in [NonZeroKeys -> HashVals] : \A i, j \in NonZeroKeys : i < j => h[i] <= h[j]}

hash(x) == hashOf[x]

\* Cell * buf after free(): no bucket array
nullptr == <<>>

\* the probe loop for x ends: the cyclic scan meets x or an empty cell
probeEnds(b, x) == {i \in DOMAIN b : b[i] = 0 \/ b[i] = x} # {}

\* probe from place_value until an empty cell or a cell holding x
RECURSIVE findCell(_, _, _, _)
findCell(b, deg, x, place_value) ==
    IF b[place_value] # 0 /\ b[place_value] # x
    THEN findCell(b, deg, x, next(deg, place_value))
    ELSE place_value

RECURSIVE findEmptyCell(_, _, _)
findEmptyCell(b, deg, place_value) ==
    IF b[place_value] # 0
    THEN findEmptyCell(b, deg, next(deg, place_value))
    ELSE place_value

\* reinsert(Cell & x, hash_value) for the cell at index i of b
reinsertCell(b, deg, i, hash_value) ==
    LET x  == b[i]
        p0 == place(deg, hash_value)
    IN  IF p0 = i THEN b
        ELSE LET p == findCell(b, deg, x, p0)
             IN  IF b[p] # 0 THEN b
                 ELSE [b EXCEPT ![p] = x, ![i] = 0]

\* reinsert(buf[i], buf[i].getHash(*this)) of resize: the hash of the key
reinsert(b, deg, i) == reinsertCell(b, deg, i, hash(b[i]))

\* first loop of resize: i in [0, old_size)
RECURSIVE resizePass1(_, _, _, _)
resizePass1(b, deg, i, old_size) ==
    IF i >= old_size THEN b
    ELSE resizePass1(IF b[i] # 0 THEN reinsert(b, deg, i) ELSE b, deg, i + 1, old_size)

\* second loop of resize: the tail of the chain that wrapped around the old end
RECURSIVE resizePass2(_, _, _)
resizePass2(b, deg, i) ==
    IF i < bufSize(deg) /\ b[i] # 0
    THEN resizePass2(reinsert(b, deg, i), deg, i + 1)
    ELSE b

\* Allocator::realloc: the old cells keep their place, the new ones are zeroed
realloc(b, old_size, new_size) ==
    [i \in 0 .. new_size - 1 |-> IF i < old_size THEN b[i] ELSE 0]

resizeNoTail(b, deg) ==
    LET new_deg == increaseSize(deg)
        grown   == realloc(b, bufSize(deg), bufSize(new_deg))
    IN  [buf |-> resizePass1(grown, new_deg, 0, bufSize(deg)), size_degree |-> new_deg]

\* resize() with for_num_elems = for_buf_size = 0
resize(b, deg) ==
    LET new_deg == increaseSize(deg)
        grown   == realloc(b, bufSize(deg), bufSize(new_deg))
        pass1   == resizePass1(grown, new_deg, 0, bufSize(deg))
    IN  [buf |-> resizePass2(pass1, new_deg, bufSize(deg)), size_degree |-> new_deg]

(***************************************************************************)
(* find / has / size                                                       *)
(***************************************************************************)
ZeroSlot == -1

NullResult == -2

\* LookupResult: NullResult, ZeroSlot (the out-of-band cell) or a bucket index
findIn(b, deg, hz, x) ==
    IF x = 0 THEN (IF hz THEN ZeroSlot ELSE NullResult)
    ELSE LET p == findCell(b, deg, x, place(deg, hash(x)))
         IN  IF b[p] # 0 THEN p ELSE NullResult

find(x) == findIn(buf, size_degree, has_zero, x)

has(x) ==
    IF x = 0 THEN has_zero
    ELSE buf[findCell(buf, size_degree, x, place(size_degree, hash(x)))] # 0

size == m_size

\* the key held by the cell a LookupResult points at
lookupResultGetKey(it) == IF it = ZeroSlot THEN 0 ELSE buf[it]

(***************************************************************************)
(* Iteration.  An iterator is ZeroSlot (the out-of-band cell), a bucket    *)
(* index, or bufSize() for end()                                           *)
(***************************************************************************)
\* ptr->isZero(*container): the out-of-band cell holds the zero key
isZeroAt(b, ptr) == IF ptr = ZeroSlot THEN TRUE ELSE b[ptr] = 0

\* while (ptr < buf_end && ptr->isZero(*this)) ++ptr;
RECURSIVE skipEmptyCells(_, _, _)
skipEmptyCells(b, deg, ptr) ==
    IF ptr < bufSize(deg) /\ isZeroAt(b, ptr)
    THEN skipEmptyCells(b, deg, ptr + 1)
    ELSE ptr

end(deg) == bufSize(deg)

\* begin(): end() when there is no buffer
begin(b, deg, hz) ==
    IF b = nullptr THEN end(deg)
    ELSE IF hz THEN ZeroSlot ELSE skipEmptyCells(b, deg, 0)

incrementNoSkip(b, deg, ptr) == IF ptr = ZeroSlot THEN 0 ELSE ptr + 1

\* iterator_base::operator++
increment(b, deg, ptr) ==
    skipEmptyCells(b, deg, IF isZeroAt(b, ptr) THEN 0 ELSE ptr + 1)

\* for (it = begin(); it != end(); ++it): the iterators visited, in order
RECURSIVE iterate(_, _, _)
iterate(b, deg, it) ==
    IF it = end(deg) THEN <<>> ELSE <<it>> \o iterate(b, deg, increment(b, deg, it))

(***************************************************************************)
(* emplace                                                                 *)
(***************************************************************************)
Pre == [buf |-> buf, m_size |-> m_size, size_degree |-> size_degree, has_zero |-> has_zero]

NoRet == [op |-> "none", key |-> 0, inserted |-> FALSE, it |-> NullResult,
          cb |-> <<>>, threw |-> FALSE, resized |-> FALSE,
          pre |-> [buf |-> <<>>, m_size |-> 0, size_degree |-> 0, has_zero |-> FALSE]]

\* emplaceIfZero for a zero key: the out-of-band slot, no bucket is touched
emplaceIfZeroAlwaysCounts(hz, n) ==
    [m_size |-> n + 1, has_zero |-> TRUE, inserted |-> TRUE, it |-> ZeroSlot]

emplaceIfZeroForgetsFlag(hz, n) ==
    [m_size |-> IF hz THEN n ELSE n + 1, has_zero |-> hz, inserted |-> ~hz, it |-> ZeroSlot]

emplaceIfZero(hz, n) ==
    IF ~hz
    THEN [m_size |-> n + 1, has_zero |-> TRUE, inserted |-> TRUE, it |-> ZeroSlot]
    ELSE [m_size |-> n, has_zero |-> hz, inserted |-> FALSE, it |-> ZeroSlot]

\* the catch block of emplaceNonZeroImpl: --m_size; buf[place_value].setZero(); throw
rollbackKeepsCell(b, n, place_value) == [buf |-> b, m_size |-> n - 1]

rollback(b, n, place_value) == [buf |-> [b EXCEPT ![place_value] = 0], m_size |-> n - 1]

\* the key-holder callback fired for a probe that ended on an occupied / empty cell
keyHolderCallbackAlwaysPersist(occupied) == "persist"

keyHolderCallback(occupied) == IF occupied THEN "discard" ELSE "persist"

\* emplaceNonZeroImpl(place_value, key_holder, it, inserted, hash_value)
emplaceNonZeroImpl(b, n, deg, x, place_value, alloc_fails) ==
    IF b[place_value] # 0
    THEN [buf |-> b, m_size |-> n, size_degree |-> deg, inserted |-> FALSE,
          it |-> place_value, cb |-> <<keyHolderCallback(TRUE)>>, threw |-> FALSE,
          resized |-> FALSE]
    ELSE LET b1 == [b EXCEPT ![place_value] = x]
             n1 == n + 1
         IN  IF ~overflow(deg, n1)
             THEN [buf |-> b1, m_size |-> n1, size_degree |-> deg, inserted |-> TRUE,
                   it |-> place_value, cb |-> <<keyHolderCallback(FALSE)>>, threw |-> FALSE,
                   resized |-> FALSE]
             ELSE IF alloc_fails
             THEN LET rb == rollback(b1, n1, place_value)
                  IN  [buf |-> rb.buf, m_size |-> rb.m_size, size_degree |-> deg,
                       inserted |-> TRUE, it |-> place_value,
                       cb |-> <<keyHolderCallback(FALSE)>>, threw |-> TRUE, resized |-> FALSE]
             ELSE LET r == resize(b1, deg)
                  IN  [buf |-> r.buf, m_size |-> n1, size_degree |-> r.size_degree,
                       inserted |-> TRUE,
                       it |-> findCell(r.buf, r.size_degree, x, place(r.size_degree, hash(x))),
                       cb |-> <<keyHolderCallback(FALSE)>>, threw |-> FALSE, resized |-> TRUE]

\* emplaceNonZero: probe, then emplaceNonZeroImpl
emplaceNonZero(b, n, deg, x, alloc_fails) ==
    emplaceNonZeroImpl(b, n, deg, x, findCell(b, deg, x, place(deg, hash(x))), alloc_fails)

\* emplace(key_holder, it, inserted) and insert(x).  The zero key is kept
\* outside the buffer, so emplaceIfZero also returns on a freed buffer; a
\* non-zero key probes the buffer
emplace(x, alloc_fails) ==
    /\ size_degree < MaxDegree
    /\ x # 0 => buf # nullptr
    /\ x # 0 => probeEnds(buf, x)
    /\ IF x = 0
       THEN LET z == emplaceIfZero(has_zero, m_size)
            IN  /\ m_size' = z.m_size
                /\ has_zero' = z.has_zero
                /\ emplaced' = emplaced \cup {x}
                /\ ret' = [op |-> "emplace", key |-> x, inserted |-> z.inserted, it |-> z.it,
                           cb |-> <<>>, threw |-> FALSE, resized |-> FALSE, pre |-> Pre]
                /\ UNCHANGED <<buf, size_degree, hashOf, reserve>>
       ELSE LET r == emplaceNonZero(buf, m_size, size_degree, x, alloc_fails)
            IN  /\ buf' = r.buf
                /\ m_size' = r.m_size
                /\ size_degree' = r.size_degree
                /\ emplaced' = IF r.threw THEN emplaced ELSE emplaced \cup {x}
                /\ ret' = [op |-> "emplace", key |-> x, inserted |-> r.inserted, it |-> r.it,
                           cb |-> r.cb, threw |-> r.threw, resized |-> r.resized, pre |-> Pre]
                /\ UNCHANGED <<has_zero, hashOf, reserve>>

EmplaceZero == emplace(0, FALSE)

EmplaceKey == \E x \in NonZeroKeys : emplace(x, FALSE)

\* the allocator is only asked for memory by an emplace that overflows
EmplaceKeyAllocFails ==
    \E x \in NonZeroKeys :
        /\ buf # nullptr
        /\ probeEnds(buf, x)
        /\ find(x) = NullResult
        /\ overflow(size_degree, m_size + 1)
        /\ emplace(x, TRUE)

\* clear(): destroyElements (trivial cells), clearHasZero, m_size = 0 and
\* memset of grower.bufSize() cells
clearKeepsZero(b, deg, hz) ==
    [buf |-> [i \in 0 .. bufSize(deg) - 1 |-> 0], m_size |-> 0, has_zero |-> hz]

clear(b, deg, hz) ==
    [buf |-> [i \in 0 .. bufSize(deg) - 1 |-> 0], m_size |-> 0, has_zero |-> FALSE]

Clear ==
    /\ ret.op # "clear"
    /\ buf # nullptr
    /\ LET c == clear(buf, size_degree, has_zero)
       IN  /\ buf' = c.buf
           /\ m_size' = c.m_size
           /\ has_zero' = c.has_zero
    /\ emplaced' = {}
    /\ ret' = [NoRet EXCEPT !.op = "clear", !.pre = [Pre EXCEPT !.buf = <<>>]]
    /\ UNCHANGED <<size_degree, hashOf, reserve>>

\* HashTable(reserve_for_num_elements): zero slot cleared, grower.set(n),
\* buffer of grower.bufSize() zeroed cells
HashTableReserved(reserve_for_num_elements, functors) ==
    /\ reserve = reserve_for_num_elements
    /\ size_degree = set(reserve_for_num_elements)
    /\ buf = [i \in 0 .. bufSize(size_degree) - 1 |-> 0]
    /\ m_size = 0
    /\ has_zero = FALSE
    /\ hashOf \in functors
    /\ emplaced = {}
    /\ ret = NoRet

\* HashTable(): the grower stays at initial_size_degree, as after set(0)
HashTableInit == HashTableReserved(0, HashFunctors)

(***************************************************************************)
(* The rest of the public interface: insertUniqueNonZero, reinsert through *)
(* an iterator, clearAndShrink and move assignment.  A call that would     *)
(* probe a buffer without an end to its probe loop, or dereference a       *)
(* buffer that was freed, does not return and has no step.                 *)
(***************************************************************************)
\* raw calls are explored while the table holds fewer than MaxRawSize elements
MaxRawSize == 2

\* insertUniqueNonZero(cell, hash_value): the cell is copied to the first
\* empty bucket from place(hash_value) on, without a look at the keys there;
\* m_size is counted before the overflow test and resize() is not guarded,
\* so its exception leaves the cell and the count in place
insertUniqueNonZero(b, n, deg, x, hash_value, alloc_fails) ==
    LET place_value == findEmptyCell(b, deg, place(deg, hash_value))
        b1 == [b EXCEPT ![place_value] = x]
        n1 == n + 1
    IN  IF ~overflow(deg, n1)
        THEN [buf |-> b1, m_size |-> n1, size_degree |-> deg, threw |-> FALSE,
              resized |-> FALSE]
        ELSE IF alloc_fails
        THEN [buf |-> b1, m_size |-> n1, size_degree |-> deg, threw |-> TRUE,
              resized |-> FALSE]
        ELSE LET r == resize(b1, deg)
             IN  [buf |-> r.buf, m_size |-> n1, size_degree |-> r.size_degree,
                  threw |-> FALSE, resized |-> TRUE]

InsertUniqueNonZero ==
    /\ buf # nullptr
    /\ size_degree < MaxDegree
    /\ m_size < MaxRawSize
    /\ probeEnds(buf, 0)
    /\ \E x \in NonZeroKeys, hash_value \in HashVals, alloc_fails \in BOOLEAN :
          /\ alloc_fails => overflow(size_degree, m_size + 1)
          /\ LET r == insertUniqueNonZero(buf, m_size, size_degree, x, hash_value,
                                          alloc_fails)
             IN  /\ buf' = r.buf
                 /\ m_size' = r.m_size
                 /\ size_degree' = r.size_degree
                 /\ emplaced' = emplaced \cup {x}
                 /\ ret' = [NoRet EXCEPT !.op = "insertUniqueNonZero", !.key = x,
                                         !.threw = r.threw, !.resized = r.resized,
                                         !.pre = Pre]
          /\ UNCHANGED <<has_zero, hashOf, reserve>>

\* reinsert(iterator & it, hash_value): the cell it points at is moved to
\* the end of the probe chain of the hash value the caller gives. For the
\* iterator to the out-of-band cell the probe ends on the first empty
\* bucket, which the copy of the zero cell leaves empty
Reinsert ==
    /\ buf # nullptr
    /\ m_size < MaxRawSize
    /\ ret.op # "reinsert"
    /\ \E it \in {i \in DOMAIN buf : buf[i] # 0} \cup (IF has_zero THEN {ZeroSlot} ELSE {}),
          hash_value \in HashVals :
          /\ it = ZeroSlot => probeEnds(buf, 0)
          /\ buf' = IF it = ZeroSlot THEN buf
                    ELSE reinsertCell(buf, size_degree, it, hash_value)
          /\ ret' = [NoRet EXCEPT !.op = "reinsert",
                                  !.key = IF it = ZeroSlot THEN 0 ELSE buf[it],
                                  !.it = it, !.pre = Pre]
    /\ UNCHANGED <<m_size, size_degree, has_zero, hashOf, reserve, emplaced>>

\* clearAndShrink(): destroyElements (trivial cells), clearHasZero,
\* m_size = 0 and free(), which leaves buf = nullptr and the grower as it was
clearAndShrink(b, deg, hz) == [buf |-> nullptr, m_size |-> 0, has_zero |-> FALSE]

ClearAndShrink ==
    /\ LET c == clearAndShrink(buf, size_degree, has_zero)
       IN  /\ buf' = c.buf
           /\ m_size' = c.m_size
           /\ has_zero' = c.has_zero
    /\ emplaced' = {}
    /\ ret' = [NoRet EXCEPT !.op = "clearAndShrink", !.pre = Pre]
    /\ UNCHANGED <<size_degree, hashOf, reserve>>

\* the table HashTable() becomes by emplace of the keys, in order
RECURSIVE tableOf(_)
tableOf(keys) ==
    IF keys = <<>>
    THEN [buf |-> [i \in 0 .. bufSize(InitialSizeDegree) - 1 |-> 0], m_size |-> 0,
          size_degree |-> InitialSizeDegree, has_zero |-> FALSE]
    ELSE LET t == tableOf(SubSeq(keys, 1, Len(keys) - 1))
             x == keys[Len(keys)]
         IN  IF x = 0
             THEN LET z == emplaceIfZero(t.has_zero, t.m_size)
                  IN  [t EXCEPT !.m_size = z.m_size, !.has_zero = z.has_zero]
             ELSE LET r == emplaceNonZero(t.buf, t.m_size, t.size_degree, x, FALSE)
                  IN  [t EXCEPT !.buf = r.buf, !.m_size = r.m_size,
                                !.size_degree = r.size_degree]

\* the table moved from holds at most MaxMovedSize elements
MaxMovedSize == 1

\* operator=(HashTable && rhs): destroyElements and free of this table, then
\* buf, m_size and the grower are swapped with rhs and the zero-value storage
\* is taken from it; Hash has no state, so both tables hash alike
moveAssign(rhs_table) == rhs_table

MoveAssign ==
    /\ ret.op # "move"
    /\ \E keys \in UNION {[1 .. k -> Keys] : k \in 0 .. MaxMovedSize} :
          LET t == moveAssign(tableOf(keys))
          IN  /\ buf' = t.buf
              /\ m_size' = t.m_size
              /\ size_degree' = t.size_degree
              /\ has_zero' = t.has_zero
              /\ emplaced' = {keys[i] : i \in 1 .. Len(keys)}
              /\ ret' = [NoRet EXCEPT !.op = "move", !.pre = Pre]
    /\ UNCHANGED <<hashOf, reserve>>

(***************************************************************************)
(* Sequences and inputs of the column operations                           *)
(***************************************************************************)
Min(a, b) == IF a < b THEN a ELSE b

\* sizeof(T) of the raw values (T = Int32), sizeof(UInt8) of a null-map byte,
\* sizeof(size_t)
SizeofT == 4

SizeofUInt8 == 1

SizeofSizeT == 8

RECURSIVE Pow256(_)
Pow256(n) == IF n = 0 THEN 1 ELSE 256 * Pow256(n - 1)

\* memcpy(pos, &x, sizeof(T)): the bytes of a raw value, little-endian
memcpyT(x) == [i \in 1 .. SizeofT |-> (x \div Pow256(i - 1)) % 256]

\* unalignedLoad<T>(pos): the raw value of the sizeof(T) bytes at pos; T is
\* signed, so the top byte carries the sign (two's complement)
RECURSIVE LoadBytes(_, _, _)
LoadBytes(bytes, pos, i) ==
    IF i > SizeofT THEN 0
    ELSE LET b == bytes[pos + i]
             digit == IF i = SizeofT /\ b >= 128 THEN b - 256 ELSE b
         IN  digit * Pow256(i - 1) + LoadBytes(bytes, pos, i + 1)

unalignedLoad(bytes, pos) == LoadBytes(bytes, pos, 1)

SeqsUpTo(S, n) == UNION {[1 .. k -> S] : k \in 0 .. n}

\* raw column values; 0 is the default value T()
Values == {0, 1}

\* bytes a null map, a filter or a serialized flag may hold
Bytes == {0, 1, 2}

Scales == {2}

\* error codes
SIZES_OF_COLUMNS_DOESNT_MATCH == "SIZES_OF_COLUMNS_DOESNT_MATCH"

PARAMETER_OUT_OF_BOUND == "PARAMETER_OUT_OF_BOUND"

\* outcomes that are not exceptions of the column code
CANNOT_ALLOCATE_MEMORY == "CANNOT_ALLOCATE_MEMORY"

SIGSEGV == "SIGSEGV"

NoError == "ok"

Ok(c) == [threw |-> NoError, col |-> c]

Throw(code, c) == [threw |-> code, col |-> c]

\* rows repeated: count(i) copies of d[i], for i = 1..Len(d), in order
RECURSIVE Repeat(_, _)
Repeat(x, n) == IF n <= 0 THEN <<>> ELSE <<x>> \o Repeat(x, n - 1)

(***************************************************************************)
(* ColumnDecimal<T>: [data |-> raw values, scale |-> scale]                *)
(***************************************************************************)
DecimalSize(c) == Len(c.data)

\* push_back of one raw value (insert, insertFrom, insertData, insertDefault)
DecimalPushBack(c, x) == [c EXCEPT !.data = Append(@, x)]

DecimalPopBack(c, n) == [c EXCEPT !.data = SubSeq(@, 1, Len(@) - n)]

\* ColumnDecimal::permute
DecimalPermuteIgnoresLimit(c, perm, limit) ==
    LET sz == Len(c.data)
    IN  IF Len(perm) < sz
        THEN Throw(SIZES_OF_COLUMNS_DOESNT_MATCH, c)
        ELSE Ok([c EXCEPT !.data = [i \in 1 .. sz |-> c.data[perm[i] + 1]]])

DecimalPermute(c, perm, limit) ==
    LET sz == IF limit # 0 THEN Min(Len(c.data), limit) ELSE Len(c.data)
    IN  IF Len(perm) < sz
        THEN Throw(SIZES_OF_COLUMNS_DOESNT_MATCH, c)
        ELSE Ok([c EXCEPT !.data = [i \in 1 .. sz |-> c.data[perm[i] + 1]]])

\* ColumnDecimal::cloneResized: copy min(size, n) rows, zero the tail
DecimalCloneResizedNoMemset(c, n) ==
    LET count == Min(Len(c.data), n)
    IN  [c EXCEPT !.data = [i \in 1 .. n |-> IF i <= count THEN c.data[i] ELSE 1]]

DecimalCloneResized(c, n) ==
    LET count == Min(Len(c.data), n)
    IN  [c EXCEPT !.data = [i \in 1 .. n |-> IF i <= count THEN c.data[i] ELSE 0]]

\* size_t arithmetic wraps around: SizeTModulus stands for 2^64
SizeTModulus == 8

SizeTs == 0 .. SizeTModulus - 1

\* ColumnDecimal::insertRangeFrom for a range inside the source
DecimalInsertRangeFrom(c, src, start, length) ==
    IF (start + length) % SizeTModulus > Len(src.data)
    THEN Throw(PARAMETER_OUT_OF_BOUND, c)
    ELSE Ok([c EXCEPT !.data = @ \o SubSeq(src.data, start + 1, start + length)])

\* memcpy(dst, &src.data[start], length * sizeof(T)): the rows read; a row
\* outside the source holds whatever the memory behind it holds
memcpyRows(src, start, length) ==
    {r \in [1 .. length -> Values] :
        \A i \in 1 .. length : start + i <= Len(src.data) => r[i] = src.data[start + i]}

\* ColumnDecimal::insertRangeFrom for any start and length: every outcome.
\* When start + length wraps around, the check passes for a range that is
\* not inside the source.  data.resize(old_size + length) is computed in
\* size_t as well: while that sum does not wrap the receiver grows by length
\* rows (the allocation may fail) and the memcpy reads outside the source;
\* when it wraps too the receiver shrinks to the wrapped size without
\* allocating, and the memcpy of length * sizeof(T) bytes starts behind the
\* rows that are left, so that it may overwrite any of them.  Either memcpy
\* may stop the process
DecimalInsertRangeFromOutcomes(c, src, start, length) ==
    IF (start + length) % SizeTModulus > Len(src.data)
    THEN {Throw(PARAMETER_OUT_OF_BOUND, c)}
    ELSE IF start + length <= Len(src.data)
         THEN {DecimalInsertRangeFrom(c, src, start, length)}
         ELSE IF Len(c.data) + length < SizeTModulus
              THEN {Throw(CANNOT_ALLOCATE_MEMORY, c), Throw(SIGSEGV, c)}
                   \cup {Ok([c EXCEPT !.data = @ \o r]) :
                            r \in memcpyRows(src, start, length)}
              ELSE {Throw(SIGSEGV, c)}
                   \cup {Ok([c EXCEPT !.data = r]) :
                            r \in [1 .. (Len(c.data) + length) % SizeTModulus -> Values]}

\* the filter loop: keep data[i] where the filter byte is nonzero
RECURSIVE FilterLoop(_, _, _)
FilterLoop(d, filt, i) ==
    IF i > Len(d) THEN <<>>
    ELSE (IF filt[i] # 0 THEN <<d[i]>> ELSE <<>>) \o FilterLoop(d, filt, i + 1)

\* ColumnDecimal::filter; the size hint only reserves capacity
DecimalFilterHintTruncates(c, filt, result_size_hint) ==
    IF Len(c.data) # Len(filt)
    THEN Throw(SIZES_OF_COLUMNS_DOESNT_MATCH, c)
    ELSE LET kept == FilterLoop(c.data, filt, 1)
         IN  Ok([c EXCEPT !.data = IF result_size_hint > 0
                                   THEN SubSeq(kept, 1, Min(Len(kept), result_size_hint))
                                   ELSE kept])

DecimalFilter(c, filt, result_size_hint) ==
    IF Len(c.data) # Len(filt)
    THEN Throw(SIZES_OF_COLUMNS_DOESNT_MATCH, c)
    ELSE Ok([c EXCEPT !.data = FilterLoop(c.data, filt, 1)])

\* the replicate loop: offsets[i] - prev_offset copies of data[i]
RECURSIVE ReplicateLoop(_, _, _, _)
ReplicateLoop(d, offsets, i, prev_offset) ==
    IF i > Len(d) THEN <<>>
    ELSE Repeat(d[i], offsets[i] - prev_offset) \o ReplicateLoop(d, offsets, i + 1, offsets[i])

\* ColumnDecimal::replicate
DecimalReplicateSkipsFirstCopy(c, offsets) ==
    IF Len(c.data) # Len(offsets)
    THEN Throw(SIZES_OF_COLUMNS_DOESNT_MATCH, c)
    ELSE Ok([c EXCEPT !.data = ReplicateLoop(c.data, offsets, 1, 1)])

DecimalReplicate(c, offsets) ==
    IF Len(c.data) # Len(offsets)
    THEN Throw(SIZES_OF_COLUMNS_DOESNT_MATCH, c)
    ELSE Ok([c EXCEPT !.data = ReplicateLoop(c.data, offsets, 1, 0)])

\* ColumnDecimal::serializeValueIntoArena: the sizeof(T) bytes written
DecimalSerializeValueIntoArena(c, n) == memcpyT(c.data[n + 1])

\* ColumnDecimal::deserializeAndInsertFromArena: one raw value is read at pos
DecimalDeserializeShortCursor(c, bytes, pos) ==
    [col |-> DecimalPushBack(c, unalignedLoad(bytes, pos)), pos |-> pos + 1]

DecimalDeserializeAndInsertFromArena(c, bytes, pos) ==
    [col |-> DecimalPushBack(c, unalignedLoad(bytes, pos)), pos |-> pos + SizeofT]

RECURSIVE Pow10(_)
Pow10(k) == IF k = 0 THEN 1 ELSE 10 * Pow10(k - 1)

\* decimalLess: the operand of the smaller scale is rescaled to the larger one
decimalLess(x, y, x_scale, y_scale) ==
    IF x_scale > y_scale
    THEN x < y * Pow10(x_scale - y_scale)
    ELSE x * Pow10(y_scale - x_scale) < y

DecimalCompareAtRaw(c, n, m, rhs_, nan_direction_hint) ==
    LET a == c.data[n + 1]
        b == rhs_.data[m + 1]
    IN  IF a > b THEN 1 ELSE IF a < b THEN -1 ELSE 0

\* ColumnDecimal::compareAt: raw comparison for equal scales, decimalLess
\* otherwise; the direction hint is not used
DecimalCompareAt(c, n, m, rhs_, nan_direction_hint) ==
    LET a == c.data[n + 1]
        b == rhs_.data[m + 1]
    IN  IF c.scale = rhs_.scale
        THEN IF a > b THEN 1 ELSE IF a < b THEN -1 ELSE 0
        ELSE IF decimalLess(b, a, rhs_.scale, c.scale) THEN 1
             ELSE IF decimalLess(a, b, c.scale, rhs_.scale) THEN -1 ELSE 0

(***************************************************************************)
(* ColumnVector<UInt8>, the null map: a sequence of bytes                  *)
(***************************************************************************)
VectorPushBack(d, x) == Append(d, x)

\* ColumnVector::popBack: data.resize_assume_reserved(data.size() - n)
VectorPopBack(d, n) == SubSeq(d, 1, Len(d) - n)

VectorInsertRangeFrom(d, src, start, length) ==
    IF start + length > Len(src)
    THEN Throw(PARAMETER_OUT_OF_BOUND, d)
    ELSE Ok(d \o SubSeq(src, start + 1, start + length))

VectorFilter(d, filt, result_size_hint) ==
    IF Len(d) # Len(filt)
    THEN Throw(SIZES_OF_COLUMNS_DOESNT_MATCH, d)
    ELSE Ok(FilterLoop(d, filt, 1))

VectorPermute(d, perm, limit) ==
    LET sz == IF limit = 0 THEN Len(d) ELSE Min(Len(d), limit)
    IN  IF Len(perm) < sz
        THEN Throw(SIZES_OF_COLUMNS_DOESNT_MATCH, d)
        ELSE Ok([i \in 1 .. sz |-> d[perm[i] + 1]])

VectorReplicate(d, offsets) ==
    IF Len(d) # Len(offsets)
    THEN Throw(SIZES_OF_COLUMNS_DOESNT_MATCH, d)
    ELSE Ok(ReplicateLoop(d, offsets, 1, 0))

(***************************************************************************)
(* ColumnNullable                                                          *)
(***************************************************************************)
EmptyDecimal(scale) == [data |-> <<>>, scale |-> scale]

EmptyNullable(scale) == [nested_column |-> EmptyDecimal(scale), null_map |-> <<>>]

\* a Field: Null() or a value
NullField == <<>>

Fields == {NullField} \cup {<<v>> : v \in Values}

NullableSize(c) == Len(c.nested_column.data)

isNullAt(c, n) == c.null_map[n + 1] # 0

\* ColumnNullable::insert(const Field &)
NullableInsert(c, x) ==
    IF x = NullField
    THEN [nested_column |-> DecimalPushBack(c.nested_column, 0),
          null_map |-> VectorPushBack(c.null_map, 1)]
    ELSE [nested_column |-> DecimalPushBack(c.nested_column, x[1]),
          null_map |-> VectorPushBack(c.null_map, 0)]

\* ColumnNullable::insertData(pos, length); pos = nullptr is modelled as NullField
NullableInsertData(c, pos) ==
    IF pos = NullField
    THEN [nested_column |-> DecimalPushBack(c.nested_column, 0),
          null_map |-> VectorPushBack(c.null_map, 1)]
    ELSE [nested_column |-> DecimalPushBack(c.nested_column, pos[1]),
          null_map |-> VectorPushBack(c.null_map, 0)]

\* ColumnNullable::insertFrom(src, n)
NullableInsertFrom(c, src, n) ==
    [nested_column |-> DecimalPushBack(c.nested_column, src.nested_column.data[n + 1]),
     null_map |-> VectorPushBack(c.null_map, src.null_map[n + 1])]

\* ColumnNullable::insertFromNotNullable(src, n); src is a decimal column
NullableInsertFromNotNullable(c, src, n) ==
    [nested_column |-> DecimalPushBack(c.nested_column, src.data[n + 1]),
     null_map |-> VectorPushBack(c.null_map, 0)]

\* ColumnNullable::insertRangeFromNotNullable(src, start, length); src is a
\* decimal column. The nested insertRangeFrom comes first: when it throws, the
\* null map is not touched; otherwise resize_fill appends length flags of 0
NullableInsertRangeFromNotNullable(c, src, start, length) ==
    LET d == DecimalInsertRangeFrom(c.nested_column, src, start, length)
    IN  IF d.threw # NoError THEN Throw(d.threw, c)
        ELSE Ok([nested_column |-> d.col,
                 null_map |-> c.null_map \o [i \in 1 .. length |-> 0]])

\* ColumnNullable::insertManyFromNotNullable(src, position, length): length
\* calls of insertFromNotNullable(src, position)
RECURSIVE NullableInsertManyFromNotNullable(_, _, _, _)
NullableInsertManyFromNotNullable(c, src, position, length) ==
    IF length = 0 THEN c
    ELSE NullableInsertManyFromNotNullable(
             NullableInsertFromNotNullable(c, src, position), src, position, length - 1)

\* ColumnNullable::insertRangeFrom: the null map first, then the nested column
NullableInsertRangeFrom(c, src, start, length) ==
    LET m == VectorInsertRangeFrom(c.null_map, src.null_map, start, length)
    IN  IF m.threw # NoError THEN Throw(m.threw, c)
        ELSE LET d == DecimalInsertRangeFrom(c.nested_column, src.nested_column, start, length)
             IN  [threw |-> d.threw, col |-> [nested_column |-> d.col, null_map |-> m.col]]

\* ColumnNullable::popBack(n)
NullablePopBackNestedOnly(c, n) ==
    [nested_column |-> DecimalPopBack(c.nested_column, n), null_map |-> c.null_map]

NullablePopBack(c, n) ==
    [nested_column |-> DecimalPopBack(c.nested_column, n),
     null_map |-> VectorPopBack(c.null_map, n)]

\* ColumnNullable::serializeValueIntoArena: the flag byte, then the nested value
\* of a row that is not null
NullableSerializeAlwaysNested(c, n) ==
    <<c.null_map[n + 1]>> \o DecimalSerializeValueIntoArena(c.nested_column, n)

NullableSerializeValueIntoArena(c, n) ==
    IF c.null_map[n + 1] # 0 THEN <<c.null_map[n + 1]>>
    ELSE <<c.null_map[n + 1]>> \o DecimalSerializeValueIntoArena(c.nested_column, n)

\* ColumnNullable::deserializeAndInsertFromArena(pos) over the bytes at pos
NullableDeserializeNoDefault(c, bytes, pos) ==
    LET val == bytes[pos + 1]
    IN  IF val = 0
        THEN LET d == DecimalDeserializeAndInsertFromArena(c.nested_column, bytes, pos + SizeofUInt8)
             IN  [col |-> [nested_column |-> d.col, null_map |-> VectorPushBack(c.null_map, val)],
                  pos |-> d.pos]
        ELSE [col |-> [nested_column |-> c.nested_column,
                       null_map |-> VectorPushBack(c.null_map, val)],
              pos |-> pos + SizeofUInt8]

NullableDeserializeAndInsertFromArena(c, bytes, pos) ==
    LET val == bytes[pos + 1]
    IN  IF val = 0
        THEN LET d == DecimalDeserializeAndInsertFromArena(c.nested_column, bytes, pos + SizeofUInt8)
             IN  [col |-> [nested_column |-> d.col, null_map |-> VectorPushBack(c.null_map, val)],
                  pos |-> d.pos]
        ELSE [col |-> [nested_column |-> DecimalPushBack(c.nested_column, 0),
                       null_map |-> VectorPushBack(c.null_map, val)],
              pos |-> pos + SizeofUInt8]

NullableCompareAtNestedOnly(c, n, m, rhs_, null_direction_hint) ==
    DecimalCompareAt(c.nested_column, n, m, rhs_.nested_column, null_direction_hint)

\* ColumnNullable::compareAt: the null flags decide first, then the nested columns
NullableCompareAt(c, n, m, rhs_, null_direction_hint) ==
    LET lval_is_null == isNullAt(c, n)
        rval_is_null == isNullAt(rhs_, m)
    IN  IF lval_is_null \/ rval_is_null
        THEN IF lval_is_null /\ rval_is_null THEN 0
             ELSE IF lval_is_null THEN null_direction_hint ELSE -null_direction_hint
        ELSE DecimalCompareAt(c.nested_column, n, m, rhs_.nested_column, null_direction_hint)

\* ColumnNullable::filter: the nested column, then the null map, then create
NullableFilter(c, filt, result_size_hint) ==
    LET d == DecimalFilter(c.nested_column, filt, result_size_hint)
    IN  IF d.threw # NoError THEN Throw(d.threw, c)
        ELSE LET m == VectorFilter(c.null_map, filt, result_size_hint)
             IN  IF m.threw # NoError THEN Throw(m.threw, c)
                 ELSE Ok([nested_column |-> d.col, null_map |-> m.col])

\* ColumnNullable::permute
NullablePermute(c, perm, limit) ==
    LET d == DecimalPermute(c.nested_column, perm, limit)
    IN  IF d.threw # NoError THEN Throw(d.threw, c)
        ELSE LET m == VectorPermute(c.null_map, perm, limit)
             IN  IF m.threw # NoError THEN Throw(m.threw, c)
                 ELSE Ok([nested_column |-> d.col, null_map |-> m.col])

\* ColumnNullable::replicate
NullableReplicate(c, offsets) ==
    LET d == DecimalReplicate(c.nested_column, offsets)
    IN  IF d.threw # NoError THEN Throw(d.threw, c)
        ELSE LET m == VectorReplicate(c.null_map, offsets)
             IN  IF m.threw # NoError THEN Throw(m.threw, c)
                 ELSE Ok([nested_column |-> d.col, null_map |-> m.col])

\* ColumnNullable::cloneResized: new rows are NULLs over default nested values
NullableCloneResizedKeepsMap(c, new_size) ==
    [nested_column |-> DecimalCloneResized(c.nested_column, new_size),
     null_map |-> IF new_size > Len(c.null_map)
                  THEN c.null_map
                  ELSE SubSeq(c.null_map, 1, new_size)]

NullableCloneResized(c, new_size) ==
    LET count == Min(NullableSize(c), new_size)
    IN  [nested_column |-> DecimalCloneResized(c.nested_column, new_size),
         null_map |-> [i \in 1 .. new_size |-> IF i <= count THEN c.null_map[i] ELSE 1]]

\* ColumnNullable::checkConsistency does not throw
checkConsistency(c) == Len(c.null_map) = Len(c.nested_column.data)

(***************************************************************************)
(* Operations on the nullable column; an operation that returns a column   *)
(* continues on the column returned                                        *)
(***************************************************************************)
NoNRet == [op |-> "none", threw |-> NoError, rt |-> <<>>]

\* source columns of insertFrom / insertRangeFrom: consistent nullable columns
SrcNullables ==
    UNION {{[nested_column |-> [data |-> d, scale |-> ncol.nested_column.scale],
             null_map |-> m] : d \in [1 .. k -> Values], m \in [1 .. k -> {0, 1}]}
           : k \in 1 .. 2}

SrcDecimals ==
    {[data |-> d, scale |-> ncol.nested_column.scale] : d \in [1 .. 2 -> Values]}

Injective(k, S) == {p \in [1 .. k -> S] : \A i, j \in 1 .. k : i # j => p[i] # p[j]}

Monotone(o) == \A i \in 1 .. Len(o) - 1 : o[i] <= o[i + 1]

NInsert ==
    /\ NullableSize(ncol) < MaxLen
    /\ \E x \in Fields :
          /\ ncol' = NullableInsert(ncol, x)
          /\ nret' = [op |-> "insert", threw |-> NoError, rt |-> <<>>]

NInsertData ==
    /\ NullableSize(ncol) < MaxLen
    /\ \E x \in Fields :
          /\ ncol' = NullableInsertData(ncol, x)
          /\ nret' = [op |-> "insertData", threw |-> NoError, rt |-> <<>>]

NInsertFrom ==
    /\ NullableSize(ncol) < MaxLen
    /\ \E src \in SrcNullables : \E n \in 0 .. NullableSize(src) - 1 :
          /\ ncol' = NullableInsertFrom(ncol, src, n)
          /\ nret' = [op |-> "insertFrom", threw |-> NoError, rt |-> <<>>]

NInsertRangeFrom ==
    \E src \in SrcNullables : \E start \in 0 .. 2, length \in 0 .. 2 :
        /\ NullableSize(ncol) + length <= MaxLen
        /\ LET r == NullableInsertRangeFrom(ncol, src, start, length)
           IN  /\ ncol' = r.col
               /\ nret' = [op |-> "insertRangeFrom", threw |-> r.threw, rt |-> <<>>]

NInsertFromNotNullable ==
    /\ NullableSize(ncol) < MaxLen
    /\ \E src \in SrcDecimals : \E n \in 0 .. DecimalSize(src) - 1 :
          /\ ncol' = NullableInsertFromNotNullable(ncol, src, n)
          /\ nret' = [op |-> "insertFromNotNullable", threw |-> NoError, rt |-> <<>>]

NInsertRangeFromNotNullable ==
    \E src \in SrcDecimals : \E start \in 0 .. 2, length \in 0 .. 2 :
        /\ NullableSize(ncol) + length <= MaxLen
        /\ LET r == NullableInsertRangeFromNotNullable(ncol, src, start, length)
           IN  /\ ncol' = r.col
               /\ nret' = [op |-> "insertRangeFromNotNullable", threw |-> r.threw,
                           rt |-> <<>>]

NInsertManyFromNotNullable ==
    \E src \in SrcDecimals : \E position \in 0 .. DecimalSize(src) - 1, length \in 0 .. 2 :
        /\ NullableSize(ncol) + length <= MaxLen
        /\ ncol' = NullableInsertManyFromNotNullable(ncol, src, position, length)
        /\ nret' = [op |-> "insertManyFromNotNullable", threw |-> NoError, rt |-> <<>>]

NPopBack ==
    \E n \in 1 .. NullableSize(ncol) :
        /\ ncol' = NullablePopBack(ncol, n)
        /\ nret' = [op |-> "popBack", threw |-> NoError, rt |-> <<>>]

NDeserializeAndInsertFromArena ==
    /\ NullableSize(ncol) < MaxLen
    /\ \E flag \in Bytes, v \in Values \cup {-1} :
          LET r == NullableDeserializeAndInsertFromArena(ncol, <<flag>> \o memcpyT(v), 0)
          IN  /\ ncol' = r.col
              /\ nret' = [op |-> "deserializeAndInsertFromArena", threw |-> NoError, rt |-> <<>>]

\* filters of the column's length and one byte longer (the mismatch case)
NFilter ==
    \E k \in {NullableSize(ncol), NullableSize(ncol) + 1} :
    \E filt \in [1 .. k -> {0, 1}], hint \in {-1, 0, 1} :
        LET r == NullableFilter(ncol, filt, hint)
        IN  /\ ncol' = r.col
            /\ nret' = [op |-> "filter", threw |-> r.threw, rt |-> <<>>]

\* permutations of the row indices and their prefixes one entry short
NPermute ==
    \E k \in {NullableSize(ncol) - 1, NullableSize(ncol)} \cap Nat :
    \E perm \in Injective(k, 0 .. NullableSize(ncol) - 1), limit \in {0, 1, MaxLen} :
        LET r == NullablePermute(ncol, perm, limit)
        IN  /\ ncol' = r.col
            /\ nret' = [op |-> "permute", threw |-> r.threw, rt |-> <<>>]

NReplicate ==
    \E k \in {NullableSize(ncol), NullableSize(ncol) + 1} :
    \E offsets \in [1 .. k -> 0 .. MaxLen] :
        /\ Monotone(offsets)
        /\ LET r == NullableReplicate(ncol, offsets)
           IN  /\ ncol' = r.col
               /\ nret' = [op |-> "replicate", threw |-> r.threw, rt |-> <<>>]

\* row n is serialized into the arena and deserialized into a fresh column of
\* the same type, the nullable column and its nested decimal column alike
NRoundTrip ==
    \E n \in 0 .. NullableSize(ncol) - 1 :
        LET bytes == NullableSerializeValueIntoArena(ncol, n)
            r == NullableDeserializeAndInsertFromArena(
                     EmptyNullable(ncol.nested_column.scale), bytes, 0)
            dbytes == DecimalSerializeValueIntoArena(ncol.nested_column, n)
            dr == DecimalDeserializeAndInsertFromArena(
                      EmptyDecimal(ncol.nested_column.scale), dbytes, 0)
        IN  /\ nret' = [op |-> "roundTrip", threw |-> NoError,
                        rt |-> [n |-> n, bytes |-> bytes, col |-> r.col, pos |-> r.pos,
                                dbytes |-> dbytes, dcol |-> dr.col, dpos |-> dr.pos]]
            /\ UNCHANGED ncol

\* right-hand columns of compareAt: one-row nullable columns of the column's
\* scale and of the next one
RhsNullables ==
    {[nested_column |-> [data |-> <<v>>, scale |-> sc], null_map |-> <<b>>] :
        v \in Values, b \in Bytes,
        sc \in {ncol.nested_column.scale, ncol.nested_column.scale + 1}}

Hints == {-1, 1}

\* compareAt(n, m, rhs, hint): the history keeps the arguments and the result
NCompareAt ==
    \E n \in 0 .. NullableSize(ncol) - 1 : \E rhs_ \in RhsNullables :
        \E m \in 0 .. NullableSize(rhs_) - 1 : \E hint \in Hints :
            /\ nret' = [op |-> "compareAt", threw |-> NoError,
                        rt |-> [n |-> n, m |-> m, rhs |-> rhs_, hint |-> hint,
                                res |-> NullableCompareAt(ncol, n, m, rhs_, hint)]]
            /\ UNCHANGED ncol

NCloneResized ==
    \E n \in 0 .. MaxLen :
        /\ ncol' = NullableCloneResized(ncol, n)
        /\ nret' = [op |-> "cloneResized", threw |-> NoError, rt |-> <<>>]

\* a consistent nullable column: ColumnNullable::create of two empty columns
ColumnNullableInit ==
    /\ \E sc \in Scales : ncol = EmptyNullable(sc)
    /\ nret = NoNRet

(***************************************************************************)
(* Column holders.  A holder is a pointer to a column object: a full       *)
(* holder points at a ColumnDecimal or ColumnNullable object on the heap,  *)
(* a ColumnConst holder keeps its own size s and the holder of the         *)
(* wrapped data column.                                                    *)
(***************************************************************************)
\* address of the object read through C
CPtr == 1

\* address of the object created for a full column D
DPtr == 2

NoColumn == [const |-> FALSE, ptr |-> 0, s |-> 0, data |-> <<>>]

\* the holder of the full column object at address a
FullHolder(a) == [const |-> FALSE, ptr |-> a, s |-> 0, data |-> <<>>]

\* the dynamic type of a full column object
isDecimal(v) == "data" \in DOMAIN v

\* ColumnNullable::operator[]
NullableAt(c, n) == IF isNullAt(c, n) THEN NullField ELSE <<c.nested_column.data[n + 1]>>

\* virtual calls on a full column object
FullSize(v) == IF isDecimal(v) THEN DecimalSize(v) ELSE NullableSize(v)

FullAt(v, n) == IF isDecimal(v) THEN <<v.data[n + 1]>> ELSE NullableAt(v, n)

FullCloneResized(v, n) ==
    IF isDecimal(v) THEN DecimalCloneResized(v, n) ELSE NullableCloneResized(v, n)

FullFilter(v, filt, hint) ==
    IF isDecimal(v) THEN DecimalFilter(v, filt, hint) ELSE NullableFilter(v, filt, hint)

FullPermute(v, perm, limit) ==
    IF isDecimal(v) THEN DecimalPermute(v, perm, limit) ELSE NullablePermute(v, perm, limit)

FullReplicate(v, offsets) ==
    IF isDecimal(v) THEN DecimalReplicate(v, offsets) ELSE NullableReplicate(v, offsets)

FullInsert(v, x) ==
    IF isDecimal(v) THEN DecimalPushBack(v, x[1]) ELSE NullableInsert(v, x)

\* ColumnNullable::insertDefault
NullableInsertDefault(c) ==
    [nested_column |-> DecimalPushBack(c.nested_column, 0),
     null_map |-> VectorPushBack(c.null_map, 1)]

\* insertDefault of a full column: T() of a decimal column, a NULL row of a
\* nullable column
FullInsertDefault(v) ==
    IF isDecimal(v) THEN DecimalPushBack(v, 0) ELSE NullableInsertDefault(v)

FullInsertFrom(v, src, n) ==
    IF isDecimal(v) THEN DecimalPushBack(v, src.data[n + 1]) ELSE NullableInsertFrom(v, src, n)

FullInsertRangeFrom(v, src, start, length) ==
    IF isDecimal(v) THEN DecimalInsertRangeFrom(v, src, start, length)
    ELSE NullableInsertRangeFrom(v, src, start, length)

FullPopBack(v, n) == IF isDecimal(v) THEN DecimalPopBack(v, n) ELSE NullablePopBack(v, n)

FullSerializeValueIntoArena(v, n) ==
    IF isDecimal(v) THEN DecimalSerializeValueIntoArena(v, n)
    ELSE NullableSerializeValueIntoArena(v, n)

FullDeserializeAndInsertFromArena(v, bytes, pos) ==
    IF isDecimal(v) THEN DecimalDeserializeAndInsertFromArena(v, bytes, pos)
    ELSE NullableDeserializeAndInsertFromArena(v, bytes, pos)

\* ColumnConst::getDataColumnPtr
getDataColumnPtr(col) == col.data

\* byteSize of a full column object: data.size() * sizeof(data[0]), for a
\* nullable column the nested column's plus the null map's
FullByteSize(v) ==
    IF isDecimal(v) THEN Len(v.data) * SizeofT
    ELSE Len(v.nested_column.data) * SizeofT + Len(v.null_map) * SizeofUInt8

\* ColumnConst::byteSize
ConstByteSize(h, col) == FullByteSize(h[getDataColumnPtr(col).ptr]) + SizeofSizeT

\* IColumn::size through a holder; ColumnConst::size is s
ColumnSize(h, col) == IF col.const THEN col.s ELSE FullSize(h[col.ptr])

\* operator[] through a holder; ColumnConst::operator[] reads (*data)[0]
RECURSIVE RowAt(_, _, _)
RowAt(h, col, n) ==
    IF col.const THEN RowAt(h, col.data, 0) ELSE FullAt(h[col.ptr], n)

Rows(h, col) == [i \in 1 .. ColumnSize(h, col) |-> RowAt(h, col, i - 1)]

\* ColumnNullable::create(nested, null_map): a new object holds the result
ColumnNullableCreateInSource(h, d, r) ==
    IF r.threw # NoError
    THEN [threw |-> r.threw, heap |-> h, col |-> d]
    ELSE [threw |-> NoError, heap |-> [h EXCEPT ![CPtr] = r.col], col |-> FullHolder(CPtr)]

ColumnNullableCreate(h, d, r) ==
    IF r.threw # NoError
    THEN [threw |-> r.threw, heap |-> h, col |-> d]
    ELSE [threw |-> NoError, heap |-> [h EXCEPT ![DPtr] = r.col], col |-> FullHolder(DPtr)]

\* ColumnDecimal: this->create(size, scale), a new object holds the result
ColumnDecimalCreate(h, d, r) ==
    IF r.threw # NoError
    THEN [threw |-> r.threw, heap |-> h, col |-> d]
    ELSE [threw |-> NoError, heap |-> [h EXCEPT ![DPtr] = r.col], col |-> FullHolder(DPtr)]

\* the result column of a full column's operation
FullCreate(h, d, r) ==
    IF r.threw = NoError /\ isDecimal(r.col)
    THEN ColumnDecimalCreate(h, d, r)
    ELSE ColumnNullableCreate(h, d, r)

\* ColumnConst::ColumnConst(data_, s_): a const of const is squashed, a data
\* column of another size than 1 is rejected
RECURSIVE squash(_)
squash(data) == IF data.const THEN squash(getDataColumnPtr(data)) ELSE data

ColumnConstNoSquash(h, d, data_, s_) ==
    IF ColumnSize(h, data_) # 1
    THEN [threw |-> SIZES_OF_COLUMNS_DOESNT_MATCH, heap |-> h, col |-> d]
    ELSE [threw |-> NoError, heap |-> h,
          col |-> [const |-> TRUE, ptr |-> 0, s |-> s_, data |-> data_]]

ColumnConst(h, d, data_, s_) ==
    LET data == squash(data_)
    IN  IF ColumnSize(h, data) # 1
        THEN [threw |-> SIZES_OF_COLUMNS_DOESNT_MATCH, heap |-> h, col |-> d]
        ELSE [threw |-> NoError, heap |-> h,
              col |-> [const |-> TRUE, ptr |-> 0, s |-> s_, data |-> data]]

\* ColumnConst::cloneResized
ConstCloneResized(h, d, col, new_size) == ColumnConst(h, d, col.data, new_size)

\* countBytesInFilter: the number of non-zero bytes
RECURSIVE countBytesInFilter(_)
countBytesInFilter(filt) ==
    IF filt = <<>> THEN 0
    ELSE (IF Head(filt) # 0 THEN 1 ELSE 0) + countBytesInFilter(Tail(filt))

\* ColumnConst::filter
ConstFilter(h, d, col, filt) ==
    IF col.s # Len(filt)
    THEN [threw |-> SIZES_OF_COLUMNS_DOESNT_MATCH, heap |-> h, col |-> d]
    ELSE ColumnConst(h, d, col.data, countBytesInFilter(filt))

\* ColumnConst::replicate
ConstReplicate(h, d, col, offsets) ==
    IF col.s # Len(offsets)
    THEN [threw |-> SIZES_OF_COLUMNS_DOESNT_MATCH, heap |-> h, col |-> d]
    ELSE ColumnConst(h, d, col.data, IF col.s = 0 THEN 0 ELSE offsets[Len(offsets)])

\* ColumnConst::permute
ConstPermute(h, d, col, perm, limit) ==
    LET lim == IF limit = 0 THEN col.s ELSE Min(col.s, limit)
    IN  IF Len(perm) < lim
        THEN [threw |-> SIZES_OF_COLUMNS_DOESNT_MATCH, heap |-> h, col |-> d]
        ELSE ColumnConst(h, d, col.data, lim)

\* countColumnsSizeInSelector: the number of rows sent to each column
countColumnsSizeInSelector(num_columns, selector) ==
    [i \in 0 .. num_columns - 1 |->
        Cardinality({j \in 1 .. Len(selector) : selector[j] = i})]

\* ColumnConst::scatter; the result is the column res[i]
ConstScatter(h, d, col, num_columns, selector, i) ==
    IF col.s # Len(selector)
    THEN [threw |-> SIZES_OF_COLUMNS_DOESNT_MATCH, heap |-> h, col |-> d]
    ELSE ConstCloneResized(h, d, col, countColumnsSizeInSelector(num_columns, selector)[i])

\* ColumnConst::insert / insertData / insertFrom / insertDefault: ++s
ConstInsertKeepsSize(col) == col

ConstInsert(col) == [col EXCEPT !.s = @ + 1]

\* ColumnConst::insertRangeFrom: s += length
ConstInsertRangeFrom(col, length) == [col EXCEPT !.s = @ + length]

\* ColumnConst::popBack: s -= n
ConstPopBack(col, n) == [col EXCEPT !.s = @ - n]

\* ColumnConst::serializeValueIntoArena: the bytes of data[0], whatever the row
ConstSerializeValueIntoArena(h, col, n) ==
    FullSerializeValueIntoArena(h[getDataColumnPtr(col).ptr], 0)

\* ColumnConst::deserializeAndInsertFromArena: the value is appended to the
\* wrapped data column and popped again, then ++s
ConstDeserializeNoPop(h, col, bytes, pos) ==
    LET r == FullDeserializeAndInsertFromArena(h[col.data.ptr], bytes, pos)
    IN  [heap |-> [h EXCEPT ![col.data.ptr] = r.col],
         col |-> [col EXCEPT !.s = @ + 1],
         pos |-> r.pos]

ConstDeserializeAndInsertFromArena(h, col, bytes, pos) ==
    LET r == FullDeserializeAndInsertFromArena(h[col.data.ptr], bytes, pos)
    IN  [heap |-> [h EXCEPT ![col.data.ptr] = FullPopBack(r.col, 1)],
         col |-> [col EXCEPT !.s = @ + 1],
         pos |-> r.pos]

(***************************************************************************)
(* Operations of the two holders: D is obtained from C, then D is mutated  *)
(***************************************************************************)
\* the columns an operation can be called on to obtain D: C while there is no
\* D yet, and every const column
Sources == {src \in {colC, colD} : src # NoColumn /\ (src.const \/ colD = NoColumn)}

\* the column returned by an operation of src becomes D
Obtain(src, r, op, arg) ==
    /\ heap' = r.heap
    /\ colD' = r.col
    /\ cowret' = [cowret EXCEPT !.op = op, !.threw = r.threw, !.arg = arg,
                                !.pre_size = ColumnSize(heap, src),
                                !.pre_rows = Rows(heap, src)]
    /\ UNCHANGED colC

\* a mutating call on D; the history keeps the argument and the size before
\* the call for a const D
Mutate(h, d, op, threw, arg) ==
    /\ heap' = h
    /\ colD' = d
    /\ cowret' = [cowret EXCEPT !.op = op, !.threw = threw,
                                !.arg = IF colD.const THEN arg ELSE <<>>,
                                !.pre_size = IF colD.const THEN colD.s ELSE 0,
                                !.pre_rows = <<>>]
    /\ UNCHANGED colC

CowCloneResized ==
    \E src \in Sources : \E n \in 0 .. MaxSrcLen :
        Obtain(src,
               IF src.const
               THEN ConstCloneResized(heap, colD, src, n)
               ELSE FullCreate(heap, colD, Ok(FullCloneResized(heap[src.ptr], n))),
               "cloneResized", <<n>>)

\* filters of the length of the column and one byte longer, with any size hint
CowFilter ==
    \E src \in Sources :
    \E k \in {ColumnSize(heap, src), ColumnSize(heap, src) + 1} :
    \E filt \in [1 .. k -> IF k = ColumnSize(heap, src) THEN Bytes ELSE {0, 1}],
       hint \in {-1, 0, 1} :
        Obtain(src,
               IF src.const
               THEN ConstFilter(heap, colD, src, filt)
               ELSE FullCreate(heap, colD, FullFilter(heap[src.ptr], filt, hint)),
               "filter", <<filt, hint>>)

\* index sequences over the rows, of the length of the column and one shorter
CowPermute ==
    \E src \in Sources :
    \E k \in {ColumnSize(heap, src) - 1, ColumnSize(heap, src)} \cap Nat :
    \E perm \in [1 .. k -> 0 .. ColumnSize(heap, src) - 1], limit \in 0 .. MaxSrcLen :
        Obtain(src,
               IF src.const
               THEN ConstPermute(heap, colD, src, perm, limit)
               ELSE FullCreate(heap, colD, FullPermute(heap[src.ptr], perm, limit)),
               "permute", <<perm, limit>>)

CowReplicate ==
    \E src \in Sources :
    \E k \in {ColumnSize(heap, src), ColumnSize(heap, src) + 1} :
    \E offsets \in [1 .. k -> 0 .. MaxSrcLen] :
        /\ Monotone(offsets)
        /\ Obtain(src,
                  IF src.const
                  THEN ConstReplicate(heap, colD, src, offsets)
                  ELSE FullCreate(heap, colD, FullReplicate(heap[src.ptr], offsets)),
                  "replicate", <<offsets>>)

\* src.scatter(2, selector), D becomes one of the two columns returned
CowScatter ==
    \E src \in Sources :
        /\ src.const
        /\ \E k \in {ColumnSize(heap, src), ColumnSize(heap, src) + 1} :
           \E selector \in [1 .. k -> 0 .. 1], i \in 0 .. 1 :
               Obtain(src, ConstScatter(heap, colD, src, 2, selector, i),
                      "scatter", <<selector, i>>)

\* D = ColumnConst::create(src, n)
CowCreateConst ==
    \E src \in Sources : \E n \in 0 .. MaxSrcLen :
        Obtain(src, ColumnConst(heap, colD, src, n), "create", <<n>>)

\* the default row of a full column object: T() of a decimal column, NULL of
\* a nullable column
DefaultRow(v) == IF isDecimal(v) THEN <<0>> ELSE NullField

\* D.insert(x), D.insertData(x) or D.insertDefault()
CowInsert ==
    /\ colD # NoColumn
    /\ ColumnSize(heap, colD) < MaxSrcLen
    /\ \E op \in {"insert", "insertData", "insertDefault"}, x \in Fields :
          /\ op = "insertDefault" =>
                 x = (IF colD.const THEN <<0>> ELSE DefaultRow(heap[colD.ptr]))
          /\ IF colD.const
             THEN Mutate(heap, ConstInsert(colD), op, NoError, <<x>>)
             ELSE /\ isDecimal(heap[colD.ptr]) => x # NullField
                  /\ Mutate([heap EXCEPT ![colD.ptr] =
                                 IF op = "insertDefault" THEN FullInsertDefault(@)
                                 ELSE FullInsert(@, x)],
                            colD, op, NoError, <<x>>)

\* D.insertFrom(C, n)
CowInsertFrom ==
    /\ colD # NoColumn
    /\ ColumnSize(heap, colD) < MaxSrcLen
    /\ \E n \in 0 .. ColumnSize(heap, colC) - 1 :
          IF colD.const
          THEN Mutate(heap, ConstInsert(colD), "insertFrom", NoError, <<n>>)
          ELSE Mutate([heap EXCEPT ![colD.ptr] = FullInsertFrom(@, heap[colC.ptr], n)],
                      colD, "insertFrom", NoError, <<n>>)

\* D.insertRangeFrom(C, start, length)
CowInsertRangeFrom ==
    /\ colD # NoColumn
    /\ \E start \in 0 .. MaxSrcLen, length \in 0 .. MaxSrcLen :
          /\ ColumnSize(heap, colD) + length <= MaxSrcLen
          /\ IF colD.const
             THEN Mutate(heap, ConstInsertRangeFrom(colD, length), "insertRangeFrom",
                         NoError, <<start, length>>)
             ELSE LET r == FullInsertRangeFrom(heap[colD.ptr], heap[colC.ptr],
                                               start, length)
                  IN  Mutate([heap EXCEPT ![colD.ptr] = r.col], colD,
                             "insertRangeFrom", r.threw, <<start, length>>)

CowPopBack ==
    /\ colD # NoColumn
    /\ \E n \in 1 .. ColumnSize(heap, colD) :
          IF colD.const
          THEN Mutate(heap, ConstPopBack(colD, n), "popBack", NoError, <<n>>)
          ELSE Mutate([heap EXCEPT ![colD.ptr] = FullPopBack(@, n)], colD,
                      "popBack", NoError, <<n>>)

\* D.serializeValueIntoArena(n): the history keeps the bytes written
CowSerializeValueIntoArena ==
    /\ colD # NoColumn
    /\ \E n \in 0 .. ColumnSize(heap, colD) - 1 :
          LET bytes == IF colD.const
                       THEN ConstSerializeValueIntoArena(heap, colD, n)
                       ELSE FullSerializeValueIntoArena(heap[colD.ptr], n)
          IN  Mutate(heap, colD, "serializeValueIntoArena", NoError, <<n, bytes>>)

\* the bytes at pos: a raw value, after a flag byte for a nullable column
CowDeserializeAndInsertFromArena ==
    /\ colD # NoColumn
    /\ ColumnSize(heap, colD) < MaxSrcLen
    /\ \E flag \in Bytes, v \in Values :
          LET target == IF colD.const THEN heap[colD.data.ptr] ELSE heap[colD.ptr]
              bytes == IF isDecimal(target) THEN memcpyT(v) ELSE <<flag>> \o memcpyT(v)
          IN  IF colD.const
              THEN LET r == ConstDeserializeAndInsertFromArena(heap, colD, bytes, 0)
                   IN  Mutate(r.heap, r.col, "deserializeAndInsertFromArena", NoError, bytes)
              ELSE LET r == FullDeserializeAndInsertFromArena(target, bytes, 0)
                   IN  Mutate([heap EXCEPT ![colD.ptr] = r.col], colD,
                              "deserializeAndInsertFromArena", NoError, bytes)

\* the columns C can be: a ColumnDecimal or a consistent ColumnNullable of up
\* to MaxSrcLen rows, or a ColumnConst of up to MaxSrcLen rows over a one-row
\* ColumnDecimal
SrcObjects(sc) ==
    UNION {{[nested_column |-> [data |-> d, scale |-> sc], null_map |-> m] :
                d \in [1 .. k -> Values], m \in [1 .. k -> {0, 1}]}
           \cup {[data |-> d, scale |-> sc] : d \in [1 .. k -> Values]}
           : k \in 0 .. MaxSrcLen}

NoCowRet ==
    [op |-> "none", threw |-> NoError, arg |-> <<>>, pre_size |-> 0, pre_rows |-> <<>>,
     size |-> 0, rows |-> <<>>, obj |-> <<>>]

HoldersInit ==
    /\ \E sc \in Scales :
          \/ \E c \in SrcObjects(sc) :
                /\ heap = <<c, EmptyNullable(sc)>>
                /\ colC = FullHolder(CPtr)
          \/ \E v \in Values, n \in 0 .. MaxSrcLen :
                /\ heap = <<[data |-> <<v>>, scale |-> sc], EmptyNullable(sc)>>
                /\ colC = ColumnConst(heap, NoColumn, FullHolder(CPtr), n).col
    /\ colD = NoColumn
    /\ cowret = [NoCowRet EXCEPT !.size = ColumnSize(heap, colC),
                                 !.rows = Rows(heap, colC),
                                 !.obj = heap[CPtr]]

(***************************************************************************)
(* The null adapter around a nested aggregate function.  A state is        *)
(* [flag |-> the prefix byte, nested |-> the nested function's state].     *)
(* The nested function is a fold over the rows it is given; its state is   *)
(* the sequence of the values added and its result their count.            *)
(***************************************************************************)
\* IAggregateFunction::create of the nested function
nestedCreate == <<>>

\* IAggregateFunction::add of the nested function
nestedAdd(st, nested_column, row_num) == Append(st, nested_column.data[row_num + 1])

\* IAggregateFunction::merge of the nested function
nestedMerge(st, r) == st \o r

\* IAggregateFunction::insertResultInto of the nested function (count)
nestedInsertResultInto(st, col) == DecimalPushBack(col, Len(st))

initFlag(rin, p) == IF rin THEN [p EXCEPT !.flag = 0] ELSE p

setFlag(rin, p) == IF rin THEN [p EXCEPT !.flag = 1] ELSE p

getFlag(rin, p) == IF rin THEN p.flag # 0 ELSE TRUE

\* AggregateFunctionNullBase::create over raw memory p
create(rin, p) == [initFlag(rin, p) EXCEPT !.nested = nestedCreate]

\* AggregateFunctionNullUnary::add
addEveryRow(rin, p, column, row_num) ==
    [setFlag(rin, p) EXCEPT !.nested = nestedAdd(@, column.nested_column, row_num)]

add(rin, p, column, row_num) ==
    IF ~isNullAt(column, row_num)
    THEN [setFlag(rin, p) EXCEPT !.nested = nestedAdd(@, column.nested_column, row_num)]
    ELSE p

\* AggregateFunctionNullBase::merge
mergeNestedOnly(rin, p, r) == [p EXCEPT !.nested = nestedMerge(@, r.nested)]

merge(rin, p, r) ==
    [(IF rin /\ getFlag(rin, r) THEN setFlag(rin, p) ELSE p)
        EXCEPT !.nested = nestedMerge(@, r.nested)]

\* AggregateFunctionNullBase::insertResultInto
insertResultIntoIgnoresFlag(rin, p, t) ==
    IF rin
    THEN [nested_column |-> nestedInsertResultInto(p.nested, t.nested_column),
          null_map |-> VectorPushBack(t.null_map, 0)]
    ELSE nestedInsertResultInto(p.nested, t)

insertResultInto(rin, p, t) ==
    IF rin
    THEN IF getFlag(rin, p)
         THEN [nested_column |-> nestedInsertResultInto(p.nested, t.nested_column),
               null_map |-> VectorPushBack(t.null_map, 0)]
         ELSE NullableInsertDefault(t)
    ELSE nestedInsertResultInto(p.nested, t)

\* the argument columns of add: consistent nullable columns of one or two rows
ArgColumns ==
    UNION {{[nested_column |-> [data |-> d, scale |-> 0], null_map |-> m] :
                d \in [1 .. k -> Values], m \in [1 .. k -> {0, 1}]}
           : k \in 1 .. 2}

NoARet == [op |-> "none", row |-> NullField, pre |-> <<>>, pre_to |-> <<>>]

\* add(place, columns, row_num)
AggAdd ==
    /\ Len(fed.place) < MaxRows
    /\ \E column \in ArgColumns : \E row_num \in 0 .. NullableSize(column) - 1 :
          /\ aplace' = add(result_is_nullable, aplace, column, row_num)
          /\ fed' = [fed EXCEPT !.place = Append(@, NullableAt(column, row_num))]
          /\ aret' = [op |-> "add", row |-> NullableAt(column, row_num),
                      pre |-> aplace, pre_to |-> <<>>]
    /\ UNCHANGED <<result_is_nullable, rhs, to>>

\* add(rhs, columns, row_num): a second state of the same function
AggAddRhs ==
    /\ Len(fed.rhs) < MaxRhsRows
    /\ \E column \in ArgColumns : \E row_num \in 0 .. NullableSize(column) - 1 :
          /\ rhs' = add(result_is_nullable, rhs, column, row_num)
          /\ fed' = [fed EXCEPT !.rhs = Append(@, NullableAt(column, row_num))]
          /\ aret' = [op |-> "addRhs", row |-> NullableAt(column, row_num),
                      pre |-> rhs, pre_to |-> <<>>]
    /\ UNCHANGED <<result_is_nullable, aplace, to>>

\* merge(place, rhs)
AggMerge ==
    /\ Len(fed.place) + Len(fed.rhs) <= MaxRows
    /\ aplace' = merge(result_is_nullable, aplace, rhs)
    /\ fed' = [fed EXCEPT !.place = @ \o fed.rhs]
    /\ aret' = [op |-> "merge", row |-> NullField, pre |-> aplace, pre_to |-> <<>>]
    /\ UNCHANGED <<result_is_nullable, rhs, to>>

\* insertResultInto(place, to)
AggInsertResultInto ==
    /\ (IF result_is_nullable THEN NullableSize(to) ELSE DecimalSize(to)) < MaxResults
    /\ to' = insertResultInto(result_is_nullable, aplace, to)
    /\ aret' = [op |-> "insertResultInto", row |-> NullField, pre |-> aplace, pre_to |-> to]
    /\ UNCHANGED <<result_is_nullable, aplace, rhs, fed>>

\* both states after create over raw memory; the target column is empty
AggregateInit ==
    /\ result_is_nullable \in BOOLEAN
    /\ \E g \in {0, 1} :
          /\ aplace = create(result_is_nullable, [flag |-> g, nested |-> <<>>])
          /\ rhs = create(result_is_nullable, [flag |-> g, nested |-> <<>>])
    /\ fed = [place |-> <<>>, rhs |-> <<>>]
    /\ to = IF result_is_nullable THEN EmptyNullable(0) ELSE EmptyDecimal(0)
    /\ aret = NoARet

(***************************************************************************)
(* Specifications                                                          *)
(***************************************************************************)
HTIdle ==
    /\ buf = <<>> /\ m_size = 0 /\ size_degree = 0 /\ has_zero = FALSE
    /\ hashOf = <<>> /\ reserve = 0 /\ emplaced = {} /\ ret = NoRet

NullableIdle == ncol = EmptyNullable(0) /\ nret = NoNRet

HoldersIdle ==
    /\ heap = <<>> /\ colC = NoColumn /\ colD = NoColumn
    /\ cowret = NoCowRet

AggregateIdle ==
    /\ result_is_nullable = FALSE
    /\ aplace = [flag |-> 0, nested |-> <<>>] /\ rhs = [flag |-> 0, nested |-> <<>>]
    /\ fed = [place |-> <<>>, rhs |-> <<>>]
    /\ to = EmptyDecimal(0) /\ aret = NoARet

NoFRet == [fn |-> "none", done |-> FALSE, in |-> <<>>, out |-> <<>>]

FnIdle == fret = NoFRet

HTInit == HashTableInit /\ NullableIdle /\ HoldersIdle /\ AggregateIdle /\ FnIdle

HTNext ==
    \/ EmplaceZero /\ UNCHANGED <<nullableVars, cowVars, aggVars, fnVars>>
    \/ EmplaceKey /\ UNCHANGED <<nullableVars, cowVars, aggVars, fnVars>>
    \/ EmplaceKeyAllocFails /\ UNCHANGED <<nullableVars, cowVars, aggVars, fnVars>>
    \/ Clear /\ UNCHANGED <<nullableVars, cowVars, aggVars, fnVars>>

\* HashTable() used through emplace / insert and clear, the calls the
\* properties of the emplace interface are about; find, has, size and the
\* iteration are read in every state
SpecHT == HTInit /\ [][HTNext]_vars

\* The resize test of emplace looks at m_size alone, so tables constructed
\* with a reserve are explored under the Hash functors that send every key
\* to one bucket or the first key to the first and the others to the last
ReserveHashFunctors ==
    {h \in HashFunctors :
        /\ \A i \in NonZeroKeys \ {1} : h[i] = h[MaxKey]
        /\ h[1] \in {6, h[MaxKey]}
        /\ h[1] # h[MaxKey] => h[MaxKey] = 15}

ReserveInit ==
    /\ \E n \in 2 .. MaxReserve : HashTableReserved(n, ReserveHashFunctors)
    /\ NullableIdle /\ HoldersIdle /\ AggregateIdle /\ FnIdle

SpecReserve == ReserveInit /\ [][HTNext]_vars

\* The whole public interface of HashTable(), under the Hash functors of
\* ReserveHashFunctors that send the first key to the first bucket
HTAllInit ==
    /\ HashTableReserved(0, {h \in ReserveHashFunctors : h[1] = 6})
    /\ NullableIdle /\ HoldersIdle /\ AggregateIdle /\ FnIdle

HTAllNext ==
    \/ EmplaceZero /\ UNCHANGED <<nullableVars, cowVars, aggVars, fnVars>>
    \/ EmplaceKey /\ UNCHANGED <<nullableVars, cowVars, aggVars, fnVars>>
    \/ EmplaceKeyAllocFails /\ UNCHANGED <<nullableVars, cowVars, aggVars, fnVars>>
    \/ Clear /\ UNCHANGED <<nullableVars, cowVars, aggVars, fnVars>>
    \/ InsertUniqueNonZero /\ UNCHANGED <<nullableVars, cowVars, aggVars, fnVars>>
    \/ Reinsert /\ UNCHANGED <<nullableVars, cowVars, aggVars, fnVars>>
    \/ ClearAndShrink /\ UNCHANGED <<nullableVars, cowVars, aggVars, fnVars>>
    \/ MoveAssign /\ UNCHANGED <<nullableVars, cowVars, aggVars, fnVars>>

SpecHTAll == HTAllInit /\ [][HTAllNext]_vars

NullableInit == ColumnNullableInit /\ HTIdle /\ HoldersIdle /\ AggregateIdle /\ FnIdle

NullableNext ==
    \/ NInsert /\ UNCHANGED <<htVars, cowVars, aggVars, fnVars>>
    \/ NInsertData /\ UNCHANGED <<htVars, cowVars, aggVars, fnVars>>
    \/ NInsertFrom /\ UNCHANGED <<htVars, cowVars, aggVars, fnVars>>
    \/ NInsertRangeFrom /\ UNCHANGED <<htVars, cowVars, aggVars, fnVars>>
    \/ NInsertFromNotNullable /\ UNCHANGED <<htVars, cowVars, aggVars, fnVars>>
    \/ NInsertRangeFromNotNullable /\ UNCHANGED <<htVars, cowVars, aggVars, fnVars>>
    \/ NInsertManyFromNotNullable /\ UNCHANGED <<htVars, cowVars, aggVars, fnVars>>
    \/ NPopBack /\ UNCHANGED <<htVars, cowVars, aggVars, fnVars>>
    \/ NDeserializeAndInsertFromArena /\ UNCHANGED <<htVars, cowVars, aggVars, fnVars>>
    \/ NFilter /\ UNCHANGED <<htVars, cowVars, aggVars, fnVars>>
    \/ NPermute /\ UNCHANGED <<htVars, cowVars, aggVars, fnVars>>
    \/ NReplicate /\ UNCHANGED <<htVars, cowVars, aggVars, fnVars>>
    \/ NCloneResized /\ UNCHANGED <<htVars, cowVars, aggVars, fnVars>>
    \/ NRoundTrip /\ UNCHANGED <<htVars, cowVars, aggVars, fnVars>>
    \/ NCompareAt /\ UNCHANGED <<htVars, cowVars, aggVars, fnVars>>

SpecNullable == NullableInit /\ [][NullableNext]_vars

COWInit == HoldersInit /\ HTIdle /\ NullableIdle /\ AggregateIdle /\ FnIdle

COWNext ==
    \/ CowCloneResized /\ UNCHANGED <<htVars, nullableVars, aggVars, fnVars>>
    \/ CowFilter /\ UNCHANGED <<htVars, nullableVars, aggVars, fnVars>>
    \/ CowPermute /\ UNCHANGED <<htVars, nullableVars, aggVars, fnVars>>
    \/ CowReplicate /\ UNCHANGED <<htVars, nullableVars, aggVars, fnVars>>
    \/ CowScatter /\ UNCHANGED <<htVars, nullableVars, aggVars, fnVars>>
    \/ CowCreateConst /\ UNCHANGED <<htVars, nullableVars, aggVars, fnVars>>
    \/ CowInsert /\ UNCHANGED <<htVars, nullableVars, aggVars, fnVars>>
    \/ CowInsertFrom /\ UNCHANGED <<htVars, nullableVars, aggVars, fnVars>>
    \/ CowInsertRangeFrom /\ UNCHANGED <<htVars, nullableVars, aggVars, fnVars>>
    \/ CowPopBack /\ UNCHANGED <<htVars, nullableVars, aggVars, fnVars>>
    \/ CowSerializeValueIntoArena /\ UNCHANGED <<htVars, nullableVars, aggVars, fnVars>>
    \/ CowDeserializeAndInsertFromArena /\ UNCHANGED <<htVars, nullableVars, aggVars, fnVars>>

SpecCOW == COWInit /\ [][COWNext]_vars

AggInit == AggregateInit /\ HTIdle /\ NullableIdle /\ HoldersIdle /\ FnIdle

AggNext ==
    \/ AggAdd /\ UNCHANGED <<htVars, nullableVars, cowVars, fnVars>>
    \/ AggAddRhs /\ UNCHANGED <<htVars, nullableVars, cowVars, fnVars>>
    \/ AggMerge /\ UNCHANGED <<htVars, nullableVars, cowVars, fnVars>>
    \/ AggInsertResultInto /\ UNCHANGED <<htVars, nullableVars, cowVars, fnVars>>

SpecAgg == AggInit /\ [][AggNext]_vars


(***************************************************************************)
(* Properties of the hash table (checked under SpecHT)                     *)
(***************************************************************************)
Occupied(b) == {i \in DOMAIN b : b[i] # 0}

WasAbsent == findIn(ret.pre.buf, ret.pre.size_degree, ret.pre.has_zero, ret.key) = NullResult

Returned == ret.op = "emplace" /\ ~ret.threw

\* C1: after any sequence of emplace calls (zero and non-zero keys, repeats,
\* resizes) size() is the number of distinct keys emplaced, the zero key once.
C1_SizeIsDistinctKeys == size = Cardinality(emplaced)

C1_Witness ==
    /\ size_degree > InitialSizeDegree
    /\ has_zero
    /\ Returned /\ ~ret.inserted
    /\ size >= 3

\* C2: find and has hit exactly the keys emplaced so far, the cell found holds
\* the key, and the lookup result of a returning emplace points at a cell that
\* holds the key, also when that emplace resized the table.
C2_FindHitsExactlyEmplaced ==
    /\ \A k \in Keys :
          /\ (find(k) # NullResult) <=> (k \in emplaced)
          /\ has(k) <=> (k \in emplaced)
          /\ find(k) # NullResult => lookupResultGetKey(find(k)) = k
    /\ Returned => lookupResultGetKey(ret.it) = ret.key

C2_Witness ==
    /\ Returned /\ ret.resized
    /\ ret.it # findCell(ret.pre.buf, ret.pre.size_degree, ret.key,
                         place(ret.pre.size_degree, hash(ret.key)))
    /\ \E k \in emplaced \ {0, ret.key} :
          find(k) # findIn(ret.pre.buf, ret.pre.size_degree, ret.pre.has_zero, k)

\* C3 as stated: after every completed emplace, of a zero or a non-zero key,
\* size() <= maxFill().
C3_Original == Returned => size <= maxFill(size_degree)

\* C3 amended: after an emplace that inserted a new non-zero key size() <=
\* maxFill(); the occupied buckets never exceed maxFill(); size() exceeds
\* maxFill() by at most the one out-of-band zero cell.
C3_BucketsWithinMaxFill ==
    /\ (Returned /\ ret.key # 0 /\ ret.inserted) => size <= maxFill(size_degree)
    /\ Cardinality(Occupied(buf)) <= maxFill(size_degree)
    /\ size <= maxFill(size_degree) + 1
    /\ size > maxFill(size_degree) => has_zero

C3_Witness ==
    /\ Returned /\ ret.key = 0 /\ ret.inserted
    /\ size = maxFill(size_degree) + 1
    /\ size_degree > InitialSizeDegree

\* C4: when the resize triggered by emplace of a new non-zero key throws, the
\* table is as before the call: size, buckets, bucket count, zero slot; the
\* new key is not findable and every stored key still is.
C4_FailedResizeRollsBack ==
    (ret.op = "emplace" /\ ret.threw) =>
        /\ size = ret.pre.m_size
        /\ buf = ret.pre.buf
        /\ size_degree = ret.pre.size_degree
        /\ has_zero = ret.pre.has_zero
        /\ find(ret.key) = NullResult /\ ~has(ret.key)
        /\ \A k \in emplaced : find(k) # NullResult

C4_Witness ==
    /\ ret.op = "emplace" /\ ret.threw
    /\ size >= 3
    /\ size_degree > InitialSizeDegree

\* C5: emplace of the zero key only sets the out-of-band slot: inserted and
\* size()+1 the first time, nothing on a repeat; no bucket changes; the
\* buckets hold exactly the non-zero keys; find(0) hits iff the slot is set.
C5_ZeroKeyOutOfBand ==
    /\ (ret.op = "emplace" /\ ret.key = 0) =>
          /\ ~ret.threw
          /\ buf = ret.pre.buf /\ size_degree = ret.pre.size_degree
          /\ ret.it = ZeroSlot
          /\ ret.inserted <=> ~ret.pre.has_zero
          /\ size = ret.pre.m_size + (IF ret.inserted THEN 1 ELSE 0)
          /\ has_zero
    /\ {buf[i] : i \in Occupied(buf)} = emplaced \ {0}
    /\ (find(0) # NullResult) <=> has_zero
    /\ has_zero <=> (0 \in emplaced)

C5_Witness ==
    /\ ret.op = "emplace" /\ ret.key = 0 /\ ~ret.inserted
    /\ Cardinality(Occupied(buf)) >= 2

\* C6 as stated: each emplace of a non-zero key fires exactly one callback:
\* persist with inserted = true and size()+1 when the key was absent, discard
\* with inserted = false and an unchanged table when it was present.
C6_Original ==
    (ret.op = "emplace" /\ ret.key # 0) =>
        /\ Len(ret.cb) = 1
        /\ WasAbsent =>
              /\ ret.cb = <<"persist">> /\ ret.inserted
              /\ size = ret.pre.m_size + 1
        /\ ~WasAbsent =>
              /\ ret.cb = <<"discard">> /\ ~ret.inserted
              /\ size = ret.pre.m_size /\ buf = ret.pre.buf
              /\ size_degree = ret.pre.size_degree

\* C6 amended: as stated for every emplace that returns; when the resize it
\* triggers throws, persist has fired and inserted was set, but size() and the
\* table are those before the call.
C6_OneCallbackPerEmplace ==
    (ret.op = "emplace" /\ ret.key # 0) =>
        /\ Len(ret.cb) = 1
        /\ WasAbsent =>
              /\ ret.cb = <<"persist">> /\ ret.inserted
              /\ ~ret.threw => size = ret.pre.m_size + 1
              /\ ret.threw => size = ret.pre.m_size /\ buf = ret.pre.buf
        /\ ~WasAbsent =>
              /\ ~ret.threw
              /\ ret.cb = <<"discard">> /\ ~ret.inserted
              /\ size = ret.pre.m_size /\ buf = ret.pre.buf
              /\ size_degree = ret.pre.size_degree

C6_Witness ==
    /\ ret.op = "emplace" /\ ret.key # 0 /\ ~WasAbsent
    /\ ret.cb = <<"discard">>
    /\ size_degree > InitialSizeDegree

(***************************************************************************)
(* Properties of ColumnNullable (checked under SpecNullable)               *)
(***************************************************************************)
\* C7: from a consistent nullable column, after any sequence of insert,
\* insertData, insertFrom, insertRangeFrom, insertFromNotNullable,
\* insertRangeFromNotNullable, insertManyFromNotNullable, popBack,
\* deserializeAndInsertFromArena, filter, permute, replicate and cloneResized
\* the null map is as long as the nested column: checkConsistency never fails.
C7_NullableStaysConsistent == checkConsistency(ncol)

C7_Witness ==
    /\ nret.op = "cloneResized"
    /\ NullableSize(ncol) = MaxLen
    /\ \E i \in 1 .. MaxLen : ncol.null_map[i] = 0
    /\ ncol.null_map[MaxLen] = 1

(***************************************************************************)
(* Independence of column holders (checked under SpecCOW)                  *)
(***************************************************************************)
\* C8: for a column C and a column D obtained from C by cloneResized, filter,
\* permute or replicate (a const D shares the wrapped data column of C), no
\* sequence of insert*, popBack and deserializeAndInsertFromArena calls on D
\* changes size() or any row value read through C.
C8_HoldersIndependent ==
    /\ ColumnSize(heap, colC) = cowret.size
    /\ Rows(heap, colC) = cowret.rows

\* D is a const column sharing the data of C, grown by a deserialized row
C8_Witness ==
    /\ colC.const /\ colD.const /\ colD.data = colC.data
    /\ cowret.op = "deserializeAndInsertFromArena"
    /\ colD.s > colC.s
    /\ colC.s > 0

(***************************************************************************)
(* Properties of the null adapter (checked under SpecAgg)                  *)
(***************************************************************************)
NonNull(rows) == SelectSeq(rows, LAMBDA x : x # NullField)

\* the state the nested function reaches from create when fed the values vals
RECURSIVE nestedFeed(_)
nestedFeed(vals) ==
    IF vals = <<>> THEN nestedCreate
    ELSE nestedAdd(nestedFeed(SubSeq(vals, 1, Len(vals) - 1)),
                   [data |-> <<vals[Len(vals)][1]>>, scale |-> 0], 0)

\* C9: after create and any sequence of add calls the nested state is the
\* state the nested function reaches when fed exactly the non-null rows in
\* order (so its count is the number of non-null rows), and an add of a null
\* row leaves the nested state and the flag untouched.
C9_AddSkipsNullRows ==
    /\ aplace.nested = nestedFeed(NonNull(fed.place))
    /\ rhs.nested = nestedFeed(NonNull(fed.rhs))
    /\ Len(rhs.nested) = Len(NonNull(fed.rhs))
    /\ (aret.op = "add" /\ aret.row = NullField) => aplace = aret.pre
    /\ (aret.op = "addRhs" /\ aret.row = NullField) => rhs = aret.pre

\* rows [v, null, w] were added: the count is 2
C9_Witness ==
    /\ Len(fed.place) = 3
    /\ fed.place[1] # NullField /\ fed.place[2] = NullField /\ fed.place[3] # NullField
    /\ aret.op = "add"
    /\ Len(aplace.nested) = 2
    /\ fed.rhs = <<>>

\* C10: insertResultInto appends exactly one row to the target; with a
\* nullable result the row is null exactly when no non-null row was folded
\* into the state since create, by add or through a merged state, otherwise
\* it is the nested result tagged non-null, and the target stays consistent;
\* with a non-nullable result it is always the nested result.
C10_InsertResultInto ==
    aret.op = "insertResultInto" =>
        LET result == Len(NonNull(fed.place))
        IN  IF result_is_nullable
            THEN /\ checkConsistency(to)
                 /\ NullableSize(to) = NullableSize(aret.pre_to) + 1
                 /\ SubSeq(to.null_map, 1, NullableSize(aret.pre_to)) = aret.pre_to.null_map
                 /\ SubSeq(to.nested_column.data, 1, NullableSize(aret.pre_to))
                        = aret.pre_to.nested_column.data
                 /\ isNullAt(to, NullableSize(to) - 1) <=> (NonNull(fed.place) = <<>>)
                 /\ ~isNullAt(to, NullableSize(to) - 1) =>
                        /\ to.null_map[NullableSize(to)] = 0
                        /\ to.nested_column.data[NullableSize(to)] = result
            ELSE to.data = Append(aret.pre_to.data, result)

\* three null rows were added and a null row was emitted
C10_Witness ==
    /\ result_is_nullable
    /\ aret.op = "insertResultInto"
    /\ fed.place = <<NullField, NullField, NullField>>
    /\ isNullAt(to, NullableSize(to) - 1)

(***************************************************************************)
(* Merge of null-adapter states (checked under SpecAgg)                    *)
(***************************************************************************)
\* the state reached from create(raw) by adding the rows to a single state
RECURSIVE addAll(_, _, _)
addAll(rin, raw, rows) ==
    IF rows = <<>> THEN create(rin, raw)
    ELSE LET r == rows[Len(rows)]
         IN  add(rin, addAll(rin, raw, SubSeq(rows, 1, Len(rows) - 1)),
                 [nested_column |-> [data |-> <<IF r = NullField THEN 0 ELSE r[1]>>,
                                     scale |-> 0],
                  null_map |-> <<IF r = NullField THEN 1 ELSE 0>>], 0)

\* what a state of the adapter around count shows: the has-non-null flag, the
\* nested count and the row insertResultInto emits into an empty target
Shown(p) ==
    [flag |-> getFlag(result_is_nullable, p),
     count |-> Len(p.nested),
     row |-> insertResultInto(result_is_nullable, p,
                 IF result_is_nullable THEN EmptyNullable(0) ELSE EmptyDecimal(0))]

\* partial states over up to one row each
PartialStates ==
    {addAll(result_is_nullable, [flag |-> 0, nested |-> <<>>], rows) :
        rows \in SeqsUpTo(Fields, 1)}

\* C11: with a commutative and associative nested merge (count), merging
\* partial states in either order and in either grouping shows the same flag,
\* nested count and emitted row, and these equal what a single state shows
\* after all the rows were added to it.
C11_MergeOrderIndependent ==
    LET rin == result_is_nullable
        raw == [flag |-> 0, nested |-> <<>>]
    IN  /\ Shown(merge(rin, aplace, rhs)) = Shown(merge(rin, rhs, aplace))
        /\ \A t \in PartialStates :
              /\ Shown(merge(rin, merge(rin, aplace, rhs), t))
                    = Shown(merge(rin, aplace, merge(rin, rhs, t)))
              /\ Shown(merge(rin, merge(rin, t, rhs), aplace))
                    = Shown(merge(rin, aplace, merge(rin, rhs, t)))
        /\ Shown(aplace) = Shown(addAll(rin, raw, fed.place))
        /\ Shown(merge(rin, aplace, rhs)) = Shown(addAll(rin, raw, fed.place \o fed.rhs))
        /\ Shown(merge(rin, rhs, aplace)) = Shown(addAll(rin, raw, fed.place \o fed.rhs))

\* a state whose own rows were all null got its flag from a merged state
C11_Witness ==
    /\ result_is_nullable
    /\ aret.op = "merge"
    /\ aret.pre.flag = 0 /\ aret.pre.nested = <<>>
    /\ aplace.flag = 1
    /\ Len(fed.place) >= 2
    /\ rhs.flag = 1

(***************************************************************************)
(* Properties of const columns (checked under SpecCOW)                     *)
(***************************************************************************)
\* a const column wraps a one-row column that is not const and still holds
\* the row the data column had at construction
WrapsOneRow(col) ==
    col.const =>
        /\ ~getDataColumnPtr(col).const
        /\ ColumnSize(heap, getDataColumnPtr(col)) = 1
        /\ heap[getDataColumnPtr(col).ptr] = cowret.obj
        /\ RowAt(heap, col, 0) = FullAt(cowret.obj, 0)

\* C12: every ColumnConst wraps a column that is not const and has size 1:
\* construction over a column of another size fails with a size mismatch, a
\* const argument is unwrapped to its data column, and after any sequence of
\* insert*, popBack, deserializeAndInsertFromArena, filter, permute,
\* replicate, cloneResized and scatter the wrapped size is 1 and data[0] is
\* the value given at construction.
C12_ConstWrapsOneRow ==
    /\ WrapsOneRow(colC)
    /\ WrapsOneRow(colD)
    /\ cowret.op = "create" =>
          /\ cowret.threw \in {NoError, SIZES_OF_COLUMNS_DOESNT_MATCH}
          /\ (cowret.threw # NoError) <=> (~colC.const /\ cowret.size # 1)
          /\ cowret.threw = NoError =>
                /\ colD.const
                /\ colD.s = cowret.arg[1]
                /\ getDataColumnPtr(colD) = FullHolder(CPtr)

\* a const column was built over a const column of another size
C12_Witness ==
    /\ cowret.op = "create" /\ cowret.threw = NoError
    /\ colC.const /\ colD.const
    /\ cowret.pre_size # 1
    /\ colD.s > 1

\* C13: on a const column insert, insertData, insertFrom and insertDefault
\* increase size() by exactly 1 and insertRangeFrom by exactly length,
\* whatever value or source is passed; the wrapped data column, the value read
\* at every row and the data term of byteSize() are unchanged.
C13_ConstInsertOnlyCounts ==
    (/\ colD.const
     /\ cowret.op \in {"insert", "insertData", "insertFrom", "insertDefault",
                       "insertRangeFrom"}) =>
        /\ cowret.threw = NoError
        /\ ColumnSize(heap, colD) = cowret.pre_size
              + (IF cowret.op = "insertRangeFrom" THEN cowret.arg[2] ELSE 1)
        /\ heap[getDataColumnPtr(colD).ptr] = cowret.obj
        /\ \A n \in 0 .. ColumnSize(heap, colD) - 1 :
              RowAt(heap, colD, n) = FullAt(cowret.obj, 0)
        /\ ConstByteSize(heap, colD) - SizeofSizeT = FullByteSize(cowret.obj)

\* a value other than the constant was inserted into a const column
C13_Witness ==
    /\ colD.const
    /\ cowret.op = "insert"
    /\ cowret.arg[1] # RowAt(heap, colD, 0)
    /\ colD.s = 2

(***************************************************************************)
(* Row-wise results of filter, permute, replicate and cloneResized         *)
(* (checked under SpecCOW: the column the operation was called on had the  *)
(* rows cowret.pre_rows, the column returned is D)                         *)
(***************************************************************************)
\* the rows with a nonzero mask byte, in order
RECURSIVE KeptRows(_, _)
KeptRows(rows, M) ==
    IF rows = <<>> THEN <<>>
    ELSE LET k == Len(rows)
         IN  KeptRows(SubSeq(rows, 1, k - 1), SubSeq(M, 1, k - 1))
                \o (IF M[k] # 0 THEN <<rows[k]>> ELSE <<>>)

\* C14: for a column of any kind and a mask M of the column's size,
\* filter(M, hint) returns a column whose size is the number of nonzero bytes
\* of M and whose rows are the rows with a nonzero byte in their original
\* order, for every size hint; a mask of another size fails with a size
\* mismatch.
C14_FilterKeepsMaskedRows ==
    cowret.op = "filter" =>
        LET M == cowret.arg[1]
        IN  IF Len(M) = cowret.pre_size
            THEN /\ cowret.threw = NoError
                 /\ ColumnSize(heap, colD) = Cardinality({i \in 1 .. Len(M) : M[i] # 0})
                 /\ Rows(heap, colD) = KeptRows(cowret.pre_rows, M)
            ELSE cowret.threw = SIZES_OF_COLUMNS_DOESNT_MATCH

\* a nullable column keeps a null row and a value, the hint being smaller
\* than the result
C14_Witness ==
    /\ cowret.op = "filter" /\ cowret.threw = NoError
    /\ ~colD.const /\ ~isDecimal(heap[colD.ptr])
    /\ cowret.arg[2] = 1
    /\ cowret.pre_size = 2
    /\ cowret.arg[1] = <<2, 1>>
    /\ Len(Rows(heap, colD)) = 2
    /\ Rows(heap, colD)[1] = NullField
    /\ Rows(heap, colD)[2] # NullField

\* C15: permute(perm, limit) returns a column of effective_limit rows with
\* result[i] = C[perm[i]] for every i < effective_limit, where effective_limit
\* is C.size() for limit 0 and min(C.size(), limit) otherwise; it fails with a
\* size mismatch exactly when perm.size() < effective_limit.
C15_PermuteSelectsRows ==
    cowret.op = "permute" =>
        LET perm == cowret.arg[1]
            limit == cowret.arg[2]
            effective_limit == IF limit = 0 THEN cowret.pre_size
                               ELSE Min(cowret.pre_size, limit)
        IN  IF Len(perm) < effective_limit
            THEN cowret.threw = SIZES_OF_COLUMNS_DOESNT_MATCH
            ELSE /\ cowret.threw = NoError
                 /\ ColumnSize(heap, colD) = effective_limit
                 /\ \A i \in 0 .. effective_limit - 1 :
                       RowAt(heap, colD, i) = cowret.pre_rows[perm[i + 1] + 1]

\* a decimal column was permuted under a limit by a sequence one index short
\* of the column that swaps two different rows
C15_Witness ==
    /\ cowret.op = "permute" /\ cowret.threw = NoError
    /\ ~colD.const /\ isDecimal(heap[colD.ptr])
    /\ cowret.pre_size = 2 /\ cowret.arg[2] = 1 /\ cowret.arg[1] = <<1>>
    /\ cowret.pre_rows[1] # cowret.pre_rows[2]
    /\ Rows(heap, colD) = <<cowret.pre_rows[2]>>

\* C16: for a column of any kind and an offsets array O of the column's size,
\* replicate(O) returns a column of O.back() rows (none for an empty column)
\* in which block i is O[i] - O[i-1] copies of C[i]; an offsets array of
\* another size fails with a size mismatch.
C16_ReplicateCopiesBlocks ==
    cowret.op = "replicate" =>
        LET O == cowret.arg[1]
        IN  IF Len(O) = cowret.pre_size
            THEN /\ cowret.threw = NoError
                 /\ ColumnSize(heap, colD) = (IF cowret.pre_size = 0 THEN 0 ELSE O[Len(O)])
                 /\ \A i \in 1 .. Len(O) :
                       \A j \in (IF i = 1 THEN 0 ELSE O[i - 1]) .. O[i] - 1 :
                           RowAt(heap, colD, j) = cowret.pre_rows[i]
            ELSE cowret.threw = SIZES_OF_COLUMNS_DOESNT_MATCH

\* a nullable column of a value and a null row: no copy of the value, two of
\* the null row
C16_Witness ==
    /\ cowret.op = "replicate" /\ cowret.threw = NoError
    /\ ~colD.const /\ ~isDecimal(heap[colD.ptr])
    /\ cowret.arg[1] = <<0, 2>>
    /\ cowret.pre_rows[1] # NullField /\ cowret.pre_rows[2] = NullField
    /\ Rows(heap, colD) = <<NullField, NullField>>

\* C17 as stated: cloneResized(n) of a column of any kind returns n rows, the
\* first min(n, C.size()) equal to the rows of C and every further row
\* reading as the zero/default value.
C17_Original ==
    cowret.op = "cloneResized" =>
        LET n == cowret.arg[1]
            count == Min(n, cowret.pre_size)
        IN  /\ cowret.threw = NoError
            /\ ColumnSize(heap, colD) = n
            /\ \A i \in 0 .. count - 1 : RowAt(heap, colD, i) = cowret.pre_rows[i + 1]
            /\ \A i \in count .. n - 1 : RowAt(heap, colD, i) = DefaultRow(cowret.obj)

\* C17: cloneResized(n) returns a column of n rows whose first
\* min(n, C.size()) rows equal the rows of C (a truncation for n < C.size());
\* every further row reads as the default value of a decimal column (zero) and
\* of a nullable column (NULL over a zero nested value), and as the constant
\* data[0] of a const column.
C17_CloneResizedKeepsPrefix ==
    cowret.op = "cloneResized" =>
        LET n == cowret.arg[1]
            count == Min(n, cowret.pre_size)
        IN  /\ cowret.threw = NoError
            /\ ColumnSize(heap, colD) = n
            /\ \A i \in 0 .. count - 1 : RowAt(heap, colD, i) = cowret.pre_rows[i + 1]
            /\ \A i \in count .. n - 1 :
                  IF colD.const
                  THEN RowAt(heap, colD, i) = FullAt(cowret.obj, 0)
                  ELSE /\ RowAt(heap, colD, i) = DefaultRow(heap[colD.ptr])
                       /\ ~isDecimal(heap[colD.ptr]) =>
                             heap[colD.ptr].nested_column.data[i + 1] = 0

\* a column that ends in a nonzero value was enlarged
C17_Witness ==
    /\ cowret.op = "cloneResized"
    /\ cowret.pre_size > 0 /\ cowret.arg[1] > cowret.pre_size
    /\ cowret.pre_rows[cowret.pre_size] = <<1>>
    /\ ~colD.const
    /\ RowAt(heap, colD, cowret.arg[1] - 1) = DefaultRow(heap[colD.ptr])

(***************************************************************************)
(* Arena serialization (checked under SpecNullable)                        *)
(***************************************************************************)
\* C18: for a decimal or nullable column C and a row n,
\* deserializeAndInsertFromArena over the bytes written by
\* serializeValueIntoArena(n), on a fresh column of the same type, appends
\* exactly one row equal to C[n] (a null row stays null, a non-null row keeps
\* its value) and returns the cursor advanced by the length of the bytes.
C18_SerializeRoundTrip ==
    nret.op = "roundTrip" =>
        LET rt == nret.rt
        IN  /\ nret.threw = NoError
            /\ checkConsistency(rt.col)
            /\ NullableSize(rt.col) = 1
            /\ NullableAt(rt.col, 0) = NullableAt(ncol, rt.n)
            /\ isNullAt(rt.col, 0) <=> isNullAt(ncol, rt.n)
            /\ rt.pos = Len(rt.bytes)
            /\ DecimalSize(rt.dcol) = 1
            /\ rt.dcol.data[1] = ncol.nested_column.data[rt.n + 1]
            /\ rt.dcol.scale = ncol.nested_column.scale
            /\ rt.dpos = Len(rt.dbytes)

\* a null row over a nonzero nested value and a non-null row of value 1 in
\* the same column; the null row was sent through the arena
C18_Witness ==
    /\ nret.op = "roundTrip"
    /\ isNullAt(ncol, nret.rt.n)
    /\ ncol.nested_column.data[nret.rt.n + 1] = 1
    /\ nret.rt.col.nested_column.data[1] = 0
    /\ \E m \in 0 .. NullableSize(ncol) - 1 : NullableAt(ncol, m) = <<1>>

(***************************************************************************)
(* Arena serialization of const columns (checked under SpecCOW)            *)
(***************************************************************************)
\* C19 as stated: serializeValueIntoArena and deserializeAndInsertFromArena
\* called on a ColumnConst fail instead of producing or consuming bytes.
C19_Original ==
    (/\ colD.const
     /\ cowret.op \in {"serializeValueIntoArena", "deserializeAndInsertFromArena"}) =>
        cowret.threw # NoError

\* C19: a const column does not refuse arena serialization:
\* serializeValueIntoArena of any row returns the bytes the wrapped data
\* column writes for data[0], and deserializeAndInsertFromArena consumes the
\* bytes of one value, leaves the wrapped data column as it was and increases
\* size() by one, whatever value the bytes hold.
C19_ConstSerializesItsData ==
    colD.const =>
        /\ cowret.op = "serializeValueIntoArena" =>
              /\ cowret.threw = NoError
              /\ cowret.arg[2] = FullSerializeValueIntoArena(cowret.obj, 0)
              /\ Len(cowret.arg[2]) > 0
              /\ ColumnSize(heap, colD) = cowret.pre_size
        /\ cowret.op = "deserializeAndInsertFromArena" =>
              /\ cowret.threw = NoError
              /\ ColumnSize(heap, colD) = cowret.pre_size + 1
              /\ heap[getDataColumnPtr(colD).ptr] = cowret.obj
              /\ \A n \in 0 .. ColumnSize(heap, colD) - 1 :
                    RowAt(heap, colD, n) = FullAt(cowret.obj, 0)

\* a const column of value 1 consumed the bytes of the value 0
C19_Witness ==
    /\ colD.const
    /\ cowret.op = "deserializeAndInsertFromArena"
    /\ cowret.threw = NoError
    /\ cowret.arg = memcpyT(0)
    /\ RowAt(heap, colD, 0) = <<1>>
    /\ colD.s = 2

(***************************************************************************)
(* ColumnNullable::compareAt (checked under SpecNullable)                  *)
(***************************************************************************)
\* the column c with the nested value of row n replaced by v
WithNested(c, n, v) == [c EXCEPT !.nested_column.data[n + 1] = v]

\* C20: compareAt(n, m, rhs, hint) returns 0 when both rows are null, +hint
\* when only the left row is null, -hint when only the right row is null,
\* and otherwise the nested columns' compareAt(n, m) with the same hint; the
\* nested values stored under null rows never influence the result.
C20_CompareAtNullsFirst ==
    nret.op = "compareAt" =>
        LET rt == nret.rt
            l == isNullAt(ncol, rt.n)
            r == isNullAt(rt.rhs, rt.m)
        IN  /\ (l /\ r) => rt.res = 0
            /\ (l /\ ~r) => rt.res = rt.hint
            /\ (~l /\ r) => rt.res = -rt.hint
            /\ (~l /\ ~r) =>
                  rt.res = DecimalCompareAt(ncol.nested_column, rt.n, rt.m,
                                            rt.rhs.nested_column, rt.hint)
            /\ l => \A v \in Values :
                      NullableCompareAt(WithNested(ncol, rt.n, v), rt.n, rt.m,
                                        rt.rhs, rt.hint) = rt.res
            /\ r => \A v \in Values :
                      NullableCompareAt(ncol, rt.n, rt.m,
                                        WithNested(rt.rhs, rt.m, v), rt.hint) = rt.res

\* a null left row over the nested value 1 against a non-null 0, hint -1: the
\* nested columns alone would compare as 1
C20_Witness ==
    /\ nret.op = "compareAt"
    /\ isNullAt(ncol, nret.rt.n)
    /\ ncol.nested_column.data[nret.rt.n + 1] = 1
    /\ ~isNullAt(nret.rt.rhs, nret.rt.m)
    /\ nret.rt.rhs.nested_column.data[nret.rt.m + 1] = 0
    /\ nret.rt.hint = -1
    /\ nret.rt.res = -1

(***************************************************************************)
(* getPermutation of decimal and nullable columns.  The specification      *)
(* SpecPerm draws a nullable column and applies getPermutation to it and   *)
(* to its nested decimal column.                                           *)
(***************************************************************************)
\* the columns sorted have at most MaxPermRows rows
MaxPermRows == 3

\* a < b in the order asked for: ascending unless reverse
DecimalOrdered(c, a, b, reverse) ==
    IF reverse THEN DecimalCompareAt(c, a, b, c, 0) >= 0
    ELSE DecimalCompareAt(c, a, b, c, 0) <= 0

\* ColumnDecimal::permutation: the row indices sorted by value, truncated to
\* limit (0 = all); rows of equal value come in any order
permutation(c, reverse, limit) ==
    LET s == DecimalSize(c)
        k == IF limit = 0 THEN s ELSE Min(limit, s)
    IN  {SubSeq(p, 1, k) : p \in
            {q \in Injective(s, 0 .. s - 1) :
                \A i, j \in 1 .. s : i < j => DecimalOrdered(c, q[i], q[j], reverse)}}

\* ColumnDecimal::getPermutation: the indices are computed as UInt32 and
\* copied to the result one by one
DecimalGetPermutation(c, reverse, limit, nan_direction_hint) ==
    {[i \in 1 .. Len(tmp_res) |-> tmp_res[i]] : tmp_res \in permutation(c, reverse, limit)}

swap(res, i, j) == [res EXCEPT ![i + 1] = res[j + 1], ![j + 1] = res[i + 1]]

\* while (read_idx < limit && !isNullAt(res[read_idx])) { ++read_idx; ++write_idx; }
RECURSIVE SkipForward(_, _, _, _)
SkipForward(c, res, read_idx, limit) ==
    IF read_idx < limit /\ ~isNullAt(c, res[read_idx + 1])
    THEN SkipForward(c, res, read_idx + 1, limit)
    ELSE read_idx

ShiftForwardNoSwap(c, res, read_idx, write_idx, end_idx, limit) == res

\* while (read_idx < end_idx && write_idx < limit): non-null rows are swapped forward
RECURSIVE ShiftForward(_, _, _, _, _, _)
ShiftForward(c, res, read_idx, write_idx, end_idx, limit) ==
    IF read_idx < end_idx /\ write_idx < limit
    THEN IF ~isNullAt(c, res[read_idx + 1])
         THEN ShiftForward(c, swap(res, read_idx, write_idx), read_idx + 1,
                           write_idx + 1, end_idx, limit)
         ELSE ShiftForward(c, res, read_idx + 1, write_idx, end_idx, limit)
    ELSE res

\* while (read_idx >= 0 && !isNullAt(res[read_idx])) { --read_idx; --write_idx; }
RECURSIVE SkipBackward(_, _, _)
SkipBackward(c, res, read_idx) ==
    IF read_idx >= 0 /\ ~isNullAt(c, res[read_idx + 1])
    THEN SkipBackward(c, res, read_idx - 1)
    ELSE read_idx

\* while (read_idx >= 0 && write_idx >= 0): non-null rows are swapped backward
RECURSIVE ShiftBackward(_, _, _, _)
ShiftBackward(c, res, read_idx, write_idx) ==
    IF read_idx >= 0 /\ write_idx >= 0
    THEN IF ~isNullAt(c, res[read_idx + 1])
         THEN ShiftBackward(c, swap(res, read_idx, write_idx), read_idx - 1, write_idx - 1)
         ELSE ShiftBackward(c, res, read_idx - 1, write_idx)
    ELSE res

NullableGetPermutationSwapped(c, reverse, limit, null_direction_hint, nested_res) ==
    IF (null_direction_hint > 0) = reverse
    THEN LET end_idx == Len(nested_res)
             lim == IF limit = 0 THEN end_idx ELSE Min(end_idx, limit)
             w == SkipForward(c, nested_res, 0, lim)
         IN  ShiftForward(c, nested_res, w + 1, w, end_idx, lim)
    ELSE LET w == SkipBackward(c, nested_res, Len(nested_res) - 1)
         IN  ShiftBackward(c, nested_res, w - 1, w)

\* ColumnNullable::getPermutation on the order nested_res that the nested
\* column's getPermutation(reverse, 0, hint) has returned
NullableGetPermutation(c, reverse, limit, null_direction_hint, nested_res) ==
    IF (null_direction_hint > 0) # reverse
    THEN LET end_idx == Len(nested_res)
             lim == IF limit = 0 THEN end_idx ELSE Min(end_idx, limit)
             w == SkipForward(c, nested_res, 0, lim)
         IN  ShiftForward(c, nested_res, w + 1, w, end_idx, lim)
    ELSE LET w == SkipBackward(c, nested_res, Len(nested_res) - 1)
         IN  ShiftBackward(c, nested_res, w - 1, w)

\* the nullable columns sorted: consistent, of any content
PermColumns ==
    UNION {{[nested_column |-> [data |-> d, scale |-> sc], null_map |-> m] :
               d \in [1 .. k -> Values], m \in [1 .. k -> {0, 1}], sc \in Scales}
           : k \in 0 .. MaxPermRows}

\* ncol.getPermutation(reverse, limit, hint, res): the history keeps the
\* arguments, the nested order and the result.  getPermutation is const, so
\* a later call returns what the first call on the column may return
PGetPermutation ==
    /\ nret = NoNRet
    /\ \E reverse \in BOOLEAN, limit \in 0 .. MaxPermRows, hint \in Hints :
        \E nested_res \in DecimalGetPermutation(ncol.nested_column, reverse, 0, hint) :
            /\ nret' = [op |-> "getPermutation", threw |-> NoError,
                        rt |-> [reverse |-> reverse, limit |-> limit, hint |-> hint,
                                nested |-> nested_res,
                                res |-> NullableGetPermutation(ncol, reverse, limit,
                                                               hint, nested_res)]]
            /\ UNCHANGED ncol

\* the nested decimal column's getPermutation(reverse, limit, hint, res)
PDecimalGetPermutation ==
    /\ nret = NoNRet
    /\ \E reverse \in BOOLEAN, limit \in 0 .. MaxPermRows, hint \in Hints :
        \E res \in DecimalGetPermutation(ncol.nested_column, reverse, limit, hint) :
            /\ nret' = [op |-> "decimalGetPermutation", threw |-> NoError,
                        rt |-> [reverse |-> reverse, limit |-> limit, hint |-> hint,
                                nested |-> res, res |-> res]]
            /\ UNCHANGED ncol

PermInit ==
    /\ ncol \in PermColumns
    /\ nret = NoNRet
    /\ HTIdle /\ HoldersIdle /\ AggregateIdle /\ FnIdle

PermNext ==
    \/ PGetPermutation /\ UNCHANGED <<htVars, cowVars, aggVars, fnVars>>
    \/ PDecimalGetPermutation /\ UNCHANGED <<htVars, cowVars, aggVars, fnVars>>

SpecPerm == PermInit /\ [][PermNext]_vars

\* the entries of a sequence that are not in Nulls, in order
RECURSIVE SelectIdx(_, _)
SelectIdx(res, Nulls) ==
    IF res = <<>> THEN <<>>
    ELSE IF Head(res) \in Nulls THEN SelectIdx(Tail(res), Nulls)
         ELSE <<Head(res)>> \o SelectIdx(Tail(res), Nulls)

NullRows(c) == {n \in 0 .. NullableSize(c) - 1 : isNullAt(c, n)}

IsPermutationOfRows(res, c) ==
    /\ Len(res) = NullableSize(c)
    /\ {res[i] : i \in 1 .. Len(res)} = 0 .. NullableSize(c) - 1

\* C21: for every nullable column, reverse and null_direction_hint,
\* getPermutation with limit = 0 returns a permutation of all row indices in
\* which the null rows are all at the end when (hint > 0) != reverse and all
\* at the front otherwise, and the non-null rows keep the relative order of
\* the nested column's permutation.
C21_NullsAtOneEnd ==
    (nret.op = "getPermutation" /\ nret.rt.limit = 0) =>
        LET rt == nret.rt
            nulls == Cardinality(NullRows(ncol))
            size_ == NullableSize(ncol)
        IN  /\ IsPermutationOfRows(rt.res, ncol)
            /\ IF (rt.hint > 0) # rt.reverse
               THEN \A i \in 1 .. size_ : isNullAt(ncol, rt.res[i]) <=> i > size_ - nulls
               ELSE \A i \in 1 .. size_ : isNullAt(ncol, rt.res[i]) <=> i <= nulls
            /\ SelectIdx(rt.res, NullRows(ncol)) = SelectIdx(rt.nested, NullRows(ncol))

\* the null row 0 of a three-row column, whose nested value sorts first, is
\* moved behind the two non-null rows
C21_Witness ==
    /\ nret.op = "getPermutation"
    /\ nret.rt.limit = 0 /\ ~nret.rt.reverse /\ nret.rt.hint = 1
    /\ ncol.null_map = <<1, 0, 0>>
    /\ ncol.nested_column.data = <<0, 1, 1>>
    /\ nret.rt.nested[1] = 0
    /\ nret.rt.res[3] = 0

\* row a does not come after row b in the compareAt ordering asked for
NullableOrdered(c, a, b, reverse, hint) ==
    IF reverse THEN NullableCompareAt(c, a, b, c, hint) >= 0
    ELSE NullableCompareAt(c, a, b, c, hint) <= 0

\* the number of entries that limit asks for
Asked(limit, size_) == IF limit = 0 THEN size_ ELSE Min(limit, size_)

\* C22 as stated: the result is sorted by the compareAt ordering and has
\* min(limit, size()) entries for limit > 0 and size() entries for limit = 0,
\* for a nullable column as for a decimal column.
C22_Original ==
    nret.op \in {"getPermutation", "decimalGetPermutation"} =>
        LET rt == nret.rt
        IN  /\ Len(rt.res) = Asked(rt.limit, NullableSize(ncol))
            /\ \A i, j \in 1 .. Len(rt.res) : i < j =>
                  IF nret.op = "getPermutation"
                  THEN NullableOrdered(ncol, rt.res[i], rt.res[j], rt.reverse, rt.hint)
                  ELSE DecimalOrdered(ncol.nested_column, rt.res[i], rt.res[j], rt.reverse)

\* C22: getPermutation of a nullable column returns size() row indices, a
\* permutation of all rows, for every limit; its first min(limit, size())
\* entries (all of them for limit = 0) are sorted by the compareAt ordering
\* (ascending unless reverse) and are the first entries of the full
\* ordering, while the entries behind them are in no particular order.
C22_SortedPrefix ==
    nret.op = "getPermutation" =>
          LET rt == nret.rt
              size_ == NullableSize(ncol)
          IN  /\ IsPermutationOfRows(rt.res, ncol)
              /\ \A i \in 1 .. Asked(rt.limit, size_) : \A j \in i + 1 .. size_ :
                    NullableOrdered(ncol, rt.res[i], rt.res[j], rt.reverse, rt.hint)

\* limit 1 on a three-row column with a null first row: three entries come
\* back, the first is the smallest non-null row
C22_Witness ==
    /\ nret.op = "getPermutation"
    /\ nret.rt.limit = 1 /\ ~nret.rt.reverse /\ nret.rt.hint = 1
    /\ ncol.null_map = <<1, 0, 0>>
    /\ ncol.nested_column.data = <<0, 1, 0>>
    /\ Len(nret.rt.res) = 3
    /\ nret.rt.res[1] = 2

(***************************************************************************)
(* Functions of their arguments alone.  SpecFn draws a function and its    *)
(* arguments at the start; the function's action applies it once and keeps *)
(* the result in fret.out.                                                 *)
(***************************************************************************)
Call(fn, in) == [fn |-> fn, done |-> FALSE, in |-> in, out |-> <<>>]

Return(out) == fret' = [fret EXCEPT !.done = TRUE, !.out = out]

Called(fn) == fret.fn = fn /\ ~fret.done

Returned_(fn) == fret.fn = fn /\ fret.done

\* raw decimal values and scales compared
DecRaws == {-15, 0, 150, 1500}

DecScales == {2, 3}

DecColumns == {[data |-> d, scale |-> sc] : d \in [1 .. 2 -> DecRaws], sc \in DecScales}

DecimalCompareAtCalls ==
    {Call("decimalCompareAt", [c |-> c, n |-> n, m |-> m, rhs |-> rhs_, hint |-> hint]) :
        c \in DecColumns, rhs_ \in DecColumns, hint \in Hints, n \in 0 .. 1, m \in 0 .. 1}

\* c.compareAt(n, m, rhs, hint) and the call the other way round
FDecimalCompareAt ==
    /\ Called("decimalCompareAt")
    /\ LET in == fret.in
       IN  Return([res |-> DecimalCompareAt(in.c, in.n, in.m, in.rhs, in.hint),
                   back |-> DecimalCompareAt(in.rhs, in.m, in.n, in.c, in.hint)])

(***************************************************************************)
(* CompareHelper and ColumnVector<T>::compareAt.  A floating-point value   *)
(* is NaN, an infinity or a number.                                        *)
(***************************************************************************)
NaN == [k |-> "nan", v |-> 0]

Inf(sign) == [k |-> "inf", v |-> sign]

Num(x) == [k |-> "num", v |-> x]

isnan(a) == a.k = "nan"

\* a - b in floating point: NaN propagates, Inf - Inf is NaN
FloatSub(a, b) ==
    IF isnan(a) \/ isnan(b) THEN NaN
    ELSE IF a.k = "inf"
         THEN IF b.k = "inf" /\ b.v = a.v THEN NaN ELSE a
         ELSE IF b.k = "inf" THEN Inf(-b.v) ELSE Num(a.v - b.v)

\* a < b in floating point: false when either is NaN
FloatLt(a, b) ==
    IF isnan(a) \/ isnan(b) THEN FALSE
    ELSE IF a.k = "inf" THEN a.v < 0 /\ ~(b.k = "inf" /\ b.v < 0)
         ELSE IF b.k = "inf" THEN b.v > 0 ELSE a.v < b.v

BoolToInt(b) == IF b THEN 1 ELSE 0

\* CompareHelper<T>::compare for the integer types
CompareHelperCompare(a, b, nan_direction_hint) ==
    IF a > b THEN 1 ELSE IF a < b THEN -1 ELSE 0

FloatCompareHelperNaNFlipped(a, b, nan_direction_hint) ==
    IF isnan(a) \/ isnan(b)
    THEN IF isnan(a) /\ isnan(b) THEN 0
         ELSE IF isnan(a) THEN -nan_direction_hint ELSE nan_direction_hint
    ELSE BoolToInt(FloatLt(Num(0), FloatSub(a, b))) - BoolToInt(FloatLt(FloatSub(a, b), Num(0)))

\* FloatCompareHelper<T>::compare
FloatCompareHelperCompare(a, b, nan_direction_hint) ==
    IF isnan(a) \/ isnan(b)
    THEN IF isnan(a) /\ isnan(b) THEN 0
         ELSE IF isnan(a) THEN nan_direction_hint ELSE -nan_direction_hint
    ELSE BoolToInt(FloatLt(Num(0), FloatSub(a, b))) - BoolToInt(FloatLt(FloatSub(a, b), Num(0)))

FloatTypes == {"Float64"}

IntTypes == {"Int32"}

\* ColumnVector<T>::compareAt
VectorCompareAt(T, data, n, m, rhs_data, nan_direction_hint) ==
    IF T \in FloatTypes
    THEN FloatCompareHelperCompare(data[n + 1], rhs_data[m + 1], nan_direction_hint)
    ELSE CompareHelperCompare(data[n + 1], rhs_data[m + 1], nan_direction_hint)

FloatVals == {NaN, Inf(-1), Inf(1), Num(-1), Num(2)}

IntVals == {-1, 0, 2}

ElementsOf(T) == IF T \in FloatTypes THEN FloatVals ELSE IntVals

\* direction hints: the two used for sorting, zero, and two of larger magnitude
VecHints == {-2, -1, 0, 1, 2}

VectorCompareAtCalls(T) ==
    {Call("vectorCompareAt", [T |-> T, data |-> d, n |-> n, m |-> m, rhs |-> r,
                              hint |-> hint]) :
        d \in [1 .. 2 -> ElementsOf(T)], r \in [1 .. 2 -> ElementsOf(T)],
        n \in 0 .. 1, m \in 0 .. 1, hint \in VecHints}

FVectorCompareAt ==
    /\ Called("vectorCompareAt")
    /\ LET in == fret.in
       IN  Return(VectorCompareAt(in.T, in.data, in.n, in.m, in.rhs, in.hint))

(***************************************************************************)
(* ColumnDecimal::insertRangeFrom for every start and length               *)
(***************************************************************************)
SmallDecimals == {[data |-> d, scale |-> sc] : d \in SeqsUpTo(Values, 2), sc \in Scales}

DecimalInsertRangeFromCalls ==
    {Call("decimalInsertRangeFrom", [c |-> c, src |-> src, start |-> start, length |-> length]) :
        c \in SmallDecimals, src \in SmallDecimals, start \in SizeTs, length \in SizeTs}

FDecimalInsertRangeFrom ==
    /\ Called("decimalInsertRangeFrom")
    /\ \E r \in DecimalInsertRangeFromOutcomes(fret.in.c, fret.in.src, fret.in.start,
                                               fret.in.length) :
          Return(r)

(***************************************************************************)
(* Logical functions and / or / xor without nullable arguments             *)
(* (functions_logical.cpp).  An argument column is [const, T, data]: a     *)
(* const column holds its one value in data.  Inside basicExecuteImpl a    *)
(* UInt8 column pointer is either col_res itself or a column of bytes.     *)
(***************************************************************************)
\* template parameter N of OperationApplier
BatchWidth == 10

LogicalOps == {"and", "or", "xor"}

\* Op::apply on the bytes 0 and 1
OpApply(Op, a, b) ==
    CASE Op = "and" -> IF a # 0 /\ b # 0 THEN 1 ELSE 0
      [] Op = "or"  -> IF a # 0 \/ b # 0 THEN 1 ELSE 0
      [] Op = "xor" -> IF (a # 0) # (b # 0) THEN 1 ELSE 0

isSaturable(Op) == Op \in {"and", "or"}

\* Op::isSaturatedValue: the absorbing byte, 0 (false) for and; for or it is
\* Ternary::True, a byte that basicExecuteImpl never produces
isSaturatedValue(Op, a) == Op = "and" /\ a = 0

\* !!x, x != 0 and FieldVisitorConvertToNumber<bool>
toBool(x) == IF x # 0 THEN 1 ELSE 0

RemoveAt(s, i) == SubSeq(s, 1, i - 1) \o SubSeq(s, i + 1, Len(s))

\* the loop of extractConstColumns, from the last column to the first
RECURSIVE extractConstLoop(_, _, _, _, _)
extractConstLoop(Op, in, i, res, has_res) ==
    IF i < 0 THEN [in |-> in, res |-> res, has_res |-> has_res]
    ELSE IF ~in[i + 1].const THEN extractConstLoop(Op, in, i - 1, res, has_res)
    ELSE LET x == toBool(in[i + 1].data[1])
         IN  extractConstLoop(Op, RemoveAt(in, i + 1), i - 1,
                              IF has_res THEN OpApply(Op, res, x) ELSE x, TRUE)

extractConstColumns(Op, in) == extractConstLoop(Op, in, Len(in) - 1, 0, FALSE)

\* a pointer to col_res, and a pointer to another UInt8 column
ColRes == [res |-> TRUE, data |-> <<>>]

UInt8Column(data) == [res |-> FALSE, data |-> data]

\* the bytes a pointer points at, given the bytes of col_res
getData(col, vec_res) == IF col.res THEN vec_res ELSE col.data

\* AssociativeApplierImpl<Op, N>::apply(i) over the columns cols[k ..]
RECURSIVE AssociativeApply(_, _, _, _, _)
AssociativeApply(Op, cols, k, i, vec_res) ==
    LET a == getData(cols[k], vec_res)[i]
    IN  IF k = Len(cols) THEN a
        ELSE IF isSaturable(Op) /\ isSaturatedValue(Op, a) THEN a
        ELSE OpApply(Op, a, AssociativeApply(Op, cols, k + 1, i, vec_res))

LOGICAL_ERROR == "LOGICAL_ERROR"

\* OperationApplier::doBatchedApply: the last N columns, N the largest width
\* not above in.size(); row i of the result is written after row i is read.
\* With fewer than two columns the width falls through to the
\* specialization for N = 1, which throws and changes nothing
doBatchedApply(Op, in, vec_res) ==
    IF Len(in) < 2
    THEN [threw |-> LOGICAL_ERROR, in |-> in, vec_res |-> vec_res]
    ELSE LET n == Min(BatchWidth, Len(in))
             cols == SubSeq(in, Len(in) - n + 1, Len(in))
         IN  [threw |-> NoError,
              in |-> SubSeq(in, 1, Len(in) - n),
              vec_res |-> [i \in 1 .. Len(vec_res) |->
                              AssociativeApply(Op, cols, 1, i, vec_res)]]

\* OperationApplier::apply: while (in.size() > 1) { doBatchedApply; in.push_back(result) }
RECURSIVE OperationApplierApply(_, _, _)
OperationApplierApply(Op, in, vec_res) ==
    IF Len(in) > 1
    THEN LET b == doBatchedApply(Op, in, vec_res)
         IN  OperationApplierApply(Op, b.in \o <<ColRes>>, b.vec_res)
    ELSE [in |-> in, vec_res |-> vec_res]

\* a byte of a buffer that was resized and not yet written
Uninitialized == -1

\* convertColumnToUInt8; a ColumnUInt8 is passed as it is
convertColumnToUInt8(column) ==
    IF column.T = "UInt8" THEN UInt8Column(column.data)
    ELSE UInt8Column([i \in 1 .. Len(column.data) |-> toBool(column.data[i])])

\* FastApplierImpl<Op>::apply(x, y, result)
FastApplierApply(Op, x, y) == [i \in 1 .. Len(x) |-> OpApply(Op, toBool(x[i]), toBool(y[i]))]

\* basicExecuteImpl: the result column, const or full
basicExecuteImpl(Op, arguments_, input_rows_count) ==
    LET e == extractConstColumns(Op, arguments_)
        arguments == e.in
        const_val == e.res
    IN  IF e.has_res /\ (arguments = <<>>
                         \/ OpApply(Op, const_val, 0) = OpApply(Op, const_val, 1))
        THEN [const |-> TRUE, s |-> input_rows_count,
              data |-> <<IF arguments # <<>> THEN OpApply(Op, const_val, 0) ELSE const_val>>]
        ELSE LET has_consts == e.has_res /\ ~(OpApply(Op, const_val, 0) = 0
                                              /\ OpApply(Op, const_val, 1) = 1)
                 vec_res == [i \in 1 .. input_rows_count |->
                                IF has_consts THEN const_val ELSE Uninitialized]
             IN  IF Len(arguments) = (IF has_consts THEN 1 ELSE 2)
                 THEN [const |-> FALSE, s |-> input_rows_count,
                       data |-> FastApplierApply(Op, arguments[1].data,
                                   IF has_consts THEN vec_res ELSE arguments[2].data)]
                 ELSE LET uint8_args ==
                              (IF has_consts THEN <<ColRes>> ELSE <<>>)
                              \o [k \in 1 .. Len(arguments) |-> convertColumnToUInt8(arguments[k])]
                          r == OperationApplierApply(Op, uint8_args, vec_res)
                      IN  [const |-> FALSE, s |-> input_rows_count,
                           data |-> IF r.in[1] # ColRes THEN r.in[1].data ELSE r.vec_res]

\* argument columns of one row
ConstArgs == {[const |-> TRUE, T |-> T, data |-> <<v>>] : T \in {"UInt8"}, v \in {0, 1}}
             \cup {[const |-> TRUE, T |-> "Int32", data |-> <<7>>]}

VectorArgs == {[const |-> FALSE, T |-> "UInt8", data |-> <<v>>] : v \in {0, 1}}
              \cup {[const |-> FALSE, T |-> "Int32", data |-> <<v>>] : v \in {0, 7}}

InsertAt(s, i, x) == SubSeq(s, 1, i) \o <<x>> \o SubSeq(s, i + 1, Len(s))

\* k UInt8 columns that hold the same byte, but for at most one of them
NearUniform(k) ==
    {[i \in 1 .. k |-> [const |-> FALSE, T |-> "UInt8", data |-> <<IF i = j THEN 1 - v ELSE v>>]] :
        v \in {0, 1}, j \in 0 .. k}

\* two or three arguments of any kind; about a batch of UInt8 columns with
\* one constant first, in the middle or last; more UInt8 columns than a batch
ShortArguments == UNION {[1 .. n -> ConstArgs \cup VectorArgs] : n \in 2 .. 3}

BatchArguments ==
    UNION {{InsertAt(cols, p, c) : cols \in NearUniform(k), p \in {0, k \div 2, k},
                                   c \in {x \in ConstArgs : x.T = "UInt8"}}
           : k \in {BatchWidth - 1, BatchWidth, BatchWidth + 1}}

LongArguments == NearUniform(BatchWidth + 1) \cup NearUniform(2 * BatchWidth + 1)

\* one constant and one UInt8 column that holds any byte
RawArguments ==
    UNION {{<<c, [const |-> FALSE, T |-> "UInt8", data |-> <<v>>]>>,
            <<[const |-> FALSE, T |-> "UInt8", data |-> <<v>>], c>>}
           : c \in ConstArgs, v \in Bytes}

LogicalCalls ==
    {Call("logical", [Op |-> Op, arguments |-> a]) :
        Op \in LogicalOps,
        a \in ShortArguments \cup BatchArguments \cup LongArguments \cup RawArguments}

FLogical ==
    /\ Called("logical")
    /\ Return(basicExecuteImpl(fret.in.Op, fret.in.arguments, 1))

(***************************************************************************)
(* ColumnNullable::applyNullMap and applyNegatedNullMap                    *)
(***************************************************************************)
\* a ^ b and a | b on unsigned values
RECURSIVE BitXor(_, _)
BitXor(a, b) ==
    IF a = 0 THEN b
    ELSE IF b = 0 THEN a
    ELSE ((a + b) % 2) + 2 * BitXor(a \div 2, b \div 2)

RECURSIVE BitOr(_, _)
BitOr(a, b) ==
    IF a = 0 THEN b
    ELSE IF b = 0 THEN a
    ELSE (IF a % 2 = 1 \/ b % 2 = 1 THEN 1 ELSE 0) + 2 * BitOr(a \div 2, b \div 2)

\* applyNullMapImpl<negative>: arr1[i] |= negative ^ arr2[i], stored as UInt8
applyNullMapImpl(negative, c, map) ==
    IF Len(c.null_map) # Len(map)
    THEN Throw(LOGICAL_ERROR, c)
    ELSE Ok([c EXCEPT !.null_map =
                [i \in 1 .. Len(map) |->
                    BitOr(c.null_map[i], BitXor(BoolToInt(negative), map[i])) % 256]])

applyNullMap(c, map) == applyNullMapImpl(FALSE, c, map)

applyNegatedNullMap(c, map) == applyNullMapImpl(TRUE, c, map)

\* the bytes of a mask: 0, 1 and bytes that are neither
MaskBytes == {0, 1, 2, 255}

MaxMaskRows == 2

MaskedColumns ==
    UNION {{[nested_column |-> [data |-> d, scale |-> sc], null_map |-> m] :
               d \in [1 .. k -> Values], m \in [1 .. k -> Bytes], sc \in Scales}
           : k \in 0 .. MaxMaskRows}

ApplyNullMapCalls ==
    {Call("applyNullMap", [c |-> c, map |-> map, negative |-> negative]) :
        c \in MaskedColumns, map \in SeqsUpTo(MaskBytes, MaxMaskRows), negative \in BOOLEAN}

FApplyNullMap ==
    /\ Called("applyNullMap")
    /\ Return(IF fret.in.negative
              THEN applyNegatedNullMap(fret.in.c, fret.in.map)
              ELSE applyNullMap(fret.in.c, fret.in.map))

(***************************************************************************)
(* AggregateFunctionNullVariadic.  An argument is [nullable |-> whether    *)
(* its data type is Nullable, col |-> its column]; the nested function     *)
(* folds the rows of the columns it is given, one tuple per row.           *)
(***************************************************************************)
\* IAggregateFunction::add of the nested function with several columns
nestedAddColumns(st, nested_columns, row_num) ==
    Append(st, [i \in 1 .. Len(nested_columns) |-> nested_columns[i].data[row_num + 1]])

\* the constructor: is_nullable[i] = arguments[i]->isNullable()
VariadicIsNullable(arguments) == [i \in 1 .. Len(arguments) |-> arguments[i].nullable]

NotCalled == <<"not called">>

\* the loop of AggregateFunctionNullVariadic::add from argument i on:
\* returns at the first nullable argument that is null at row_num
RECURSIVE VariadicAddLoop(_, _, _, _, _, _, _)
VariadicAddLoop(rin, is_nullable, p, columns, row_num, i, nested_columns) ==
    IF i > Len(columns)
    THEN [place |-> [setFlag(rin, p) EXCEPT
                        !.nested = nestedAddColumns(@, nested_columns, row_num)],
          passed |-> nested_columns]
    ELSE IF is_nullable[i]
    THEN IF isNullAt(columns[i], row_num)
         THEN [place |-> p, passed |-> NotCalled]
         ELSE VariadicAddLoop(rin, is_nullable, p, columns, row_num, i + 1,
                              Append(nested_columns, columns[i].nested_column))
    ELSE VariadicAddLoop(rin, is_nullable, p, columns, row_num, i + 1,
                         Append(nested_columns, columns[i]))

VariadicAddFirstOnly(rin, is_nullable, p, columns, row_num) ==
    IF is_nullable[1] /\ isNullAt(columns[1], row_num)
    THEN [place |-> p, passed |-> NotCalled]
    ELSE LET nested_columns ==
                 [i \in 1 .. Len(columns) |->
                     IF is_nullable[i] THEN columns[i].nested_column ELSE columns[i]]
         IN  [place |-> [setFlag(rin, p) EXCEPT
                            !.nested = nestedAddColumns(@, nested_columns, row_num)],
              passed |-> nested_columns]

\* AggregateFunctionNullVariadic::add
VariadicAdd(rin, is_nullable, p, columns, row_num) ==
    VariadicAddLoop(rin, is_nullable, p, columns, row_num, 1, <<>>)

\* argument columns of two rows
VariadicArgs ==
    {[nullable |-> TRUE, col |-> [nested_column |-> [data |-> d, scale |-> 0], null_map |-> m]] :
        d \in {<<0, 1>>, <<1, 0>>}, m \in [1 .. 2 -> {0, 1}]}
    \cup {[nullable |-> FALSE, col |-> [data |-> d, scale |-> 0]] : d \in {<<0, 1>>, <<1, 0>>}}

\* a fresh state and a state that has seen a row, flag set
VariadicPlaces(rin) ==
    {create(rin, [flag |-> 0, nested |-> <<>>]),
     [setFlag(rin, create(rin, [flag |-> 0, nested |-> <<>>])) EXCEPT !.nested = <<<<1, 1>>>>]}

VariadicAddCalls ==
    {Call("variadicAdd", [rin |-> rin, arguments |-> a, place |-> p, row_num |-> row_num]) :
        rin \in {TRUE}, a \in UNION {[1 .. n -> VariadicArgs] : n \in 2 .. 3},
        p \in VariadicPlaces(TRUE), row_num \in 0 .. 1}
    \cup
    {Call("variadicAdd", [rin |-> rin, arguments |-> a, place |-> p, row_num |-> row_num]) :
        rin \in {FALSE}, a \in UNION {[1 .. n -> VariadicArgs] : n \in 2 .. 3},
        p \in VariadicPlaces(FALSE), row_num \in 0 .. 1}

FVariadicAdd ==
    /\ Called("variadicAdd")
    /\ LET a == fret.in.arguments
       IN  Return(VariadicAdd(fret.in.rin, VariadicIsNullable(a), fret.in.place,
                              [i \in 1 .. Len(a) |-> a[i].col], fret.in.row_num))

(***************************************************************************)
(* Construction of a ColumnNullable and makeNullable.  Columns here are    *)
(* objects by value: [kind |-> "decimal" or "uint8", data |-> the rows],   *)
(* [kind |-> "nullable", nested_column, null_map] and                      *)
(* [kind |-> "const", data |-> the one-row column, s |-> the size].        *)
(***************************************************************************)
ILLEGAL_COLUMN == "ILLEGAL_COLUMN"

NoObject == <<>>

FullOf(kind, data) == [kind |-> kind, data |-> data]

NullableOf(nested_column_, null_map_) ==
    [kind |-> "nullable", nested_column |-> nested_column_, null_map |-> null_map_]

ConstOf(data, s) == [kind |-> "const", data |-> data, s |-> s]

isColumnConst(column) == column.kind = "const"

isColumnNullable(column) == column.kind = "nullable"

\* IColumn::size
RECURSIVE SizeOf(_)
SizeOf(column) ==
    CASE column.kind = "const" -> column.s
      [] column.kind = "nullable" -> SizeOf(column.nested_column)
      [] OTHER -> Len(column.data)

\* canBeInsideNullable: true for ColumnVector<T> of every T and for
\* ColumnDecimal, the default of IColumn (false) for ColumnNullable and
\* ColumnConst
canBeInsideNullable(column) == column.kind \notin {"nullable", "const"}

\* replicate(offsets) of a full or nullable column
RECURSIVE ReplicateOf(_, _)
ReplicateOf(column, offsets) ==
    IF column.kind = "nullable"
    THEN NullableOf(ReplicateOf(column.nested_column, offsets),
                    ReplicateOf(column.null_map, offsets))
    ELSE FullOf(column.kind, ReplicateLoop(column.data, offsets, 1, 0))

\* ColumnConst::convertToFullColumn: data->replicate(Offsets(1, s))
convertToFullColumn(column) == ReplicateOf(column.data, <<column.s>>)

\* convertToFullColumnIfConst: a column that is not const returns itself
convertToFullColumnIfConst(column) ==
    IF isColumnConst(column) THEN convertToFullColumn(column) ELSE column

\* ColumnNullable::ColumnNullable(nested_column_, null_map_)
ColumnNullableKeepsConst(nested_column_, null_map_) ==
    IF ~isColumnConst(nested_column_) /\ ~canBeInsideNullable(nested_column_)
    THEN Throw(ILLEGAL_COLUMN, NoObject)
    ELSE IF isColumnConst(null_map_) THEN Throw(ILLEGAL_COLUMN, NoObject)
    ELSE Ok(NullableOf(nested_column_, null_map_))

ColumnNullable(nested_column_, null_map_) ==
    LET nested_column == convertToFullColumnIfConst(nested_column_)
    IN  IF ~canBeInsideNullable(nested_column) THEN Throw(ILLEGAL_COLUMN, NoObject)
        ELSE IF isColumnConst(null_map_) THEN Throw(ILLEGAL_COLUMN, NoObject)
        ELSE Ok(NullableOf(nested_column, null_map_))

\* ColumnConst::create(data_, s_) by value: a const of const is squashed
RECURSIVE squashOf(_)
squashOf(data) == IF isColumnConst(data) THEN squashOf(data.data) ELSE data

ColumnConstOf(data_, s_) ==
    LET data == squashOf(data_)
    IN  IF SizeOf(data) # 1 THEN Throw(SIZES_OF_COLUMNS_DOESNT_MATCH, NoObject)
        ELSE Ok(ConstOf(data, s_))

\* makeNullable(column)
RECURSIVE makeNullable(_)
makeNullable(column) ==
    IF isColumnNullable(column) THEN Ok(column)
    ELSE IF isColumnConst(column)
    THEN LET inner == makeNullable(column.data)
         IN  IF inner.threw # NoError THEN inner ELSE ColumnConstOf(inner.col, SizeOf(column))
    ELSE ColumnNullable(column, FullOf("uint8", [i \in 1 .. SizeOf(column) |-> 0]))

MaxCtorRows == 2

DecimalObjects == {FullOf("decimal", d) : d \in SeqsUpTo(Values, MaxCtorRows)}

UInt8Objects == {FullOf("uint8", d) : d \in SeqsUpTo({0, 1}, MaxCtorRows)}

\* columns of ColumnVector<Int8>
Int8Objects == {FullOf("int8", d) : d \in SeqsUpTo({-1, 2}, MaxCtorRows)}

OneRowObjects ==
    {FullOf("decimal", <<v>>) : v \in Values}
    \cup {NullableOf(FullOf("decimal", <<v>>), FullOf("uint8", <<b>>)) : v \in Values, b \in {0, 1}}

ConstObjects == {ConstOf(c, s) : c \in OneRowObjects, s \in 0 .. MaxCtorRows}

ConstMaps == {ConstOf(FullOf("uint8", <<b>>), s) : b \in {0, 1}, s \in 0 .. MaxCtorRows}

NullableObjects ==
    UNION {{NullableOf(FullOf("decimal", d), FullOf("uint8", m)) :
               d \in [1 .. k -> Values], m \in [1 .. k -> {0, 1}]} : k \in 0 .. MaxCtorRows}

ColumnNullableCalls ==
    {Call("ColumnNullable", [nested_column |-> n, null_map |-> m]) :
        n \in DecimalObjects \cup Int8Objects \cup ConstObjects \cup NullableObjects,
        m \in UInt8Objects \cup ConstMaps}

FColumnNullable ==
    /\ Called("ColumnNullable")
    /\ Return(ColumnNullable(fret.in.nested_column, fret.in.null_map))

MakeNullableCalls ==
    {Call("makeNullable", [column |-> c]) :
        c \in DecimalObjects \cup Int8Objects \cup ConstObjects \cup NullableObjects}

FMakeNullable ==
    /\ Called("makeNullable")
    /\ Return(makeNullable(fret.in.column))

(***************************************************************************)
(* Logical functions and / or with a nullable result type (ternary logic). *)
(* An argument column is [const, nullable, data, null_map] of one row per  *)
(* row of the block; a const column holds its one value in row 1.          *)
(***************************************************************************)
\* the bytes of Ternary::False, Ternary::Null and Ternary::True
Ternary == [False |-> 0, Null |-> 1, True |-> 255]

\* Ternary::makeValue(value) and Ternary::makeValue(value, is_null)
makeValue(value) == IF value # 0 THEN Ternary.True ELSE Ternary.False

makeValueNullable(value, is_null) == IF is_null # 0 THEN Ternary.Null ELSE makeValue(value)

\* Op::apply on ternary bytes: and is the smaller, or the greater of
\* False < Null < True
TernaryApply(Op, a, b) ==
    IF Op = "and" THEN (IF a < b THEN a ELSE b) ELSE (IF a < b THEN b ELSE a)

\* Op::isSaturatedValue on ternary bytes
TernaryIsSaturatedValue(Op, a) ==
    IF Op = "and" THEN a = Ternary.False ELSE a = Ternary.True

\* convertFromTernaryData
convertFromTernaryData(ternary_data, make_nullable) ==
    [const |-> FALSE, nullable |-> make_nullable,
     data |-> [i \in 1 .. Len(ternary_data) |-> BoolToInt(ternary_data[i] = Ternary.True)],
     null_map |-> IF make_nullable
                  THEN [i \in 1 .. Len(ternary_data) |-> BoolToInt(ternary_data[i] = Ternary.Null)]
                  ELSE <<>>]

\* the Field of a const column to a ternary byte (extractConstColumnsTernary)
ConstTernary(column) ==
    IF column.nullable /\ column.null_map[1] # 0 THEN Ternary.Null
    ELSE makeValue(toBool(column.data[1]))

\* the loop of extractConstColumns with the ternary conversion
RECURSIVE extractConstLoopTernary(_, _, _, _, _)
extractConstLoopTernary(Op, in, i, res, has_res) ==
    IF i < 0 THEN [in |-> in, res |-> res, has_res |-> has_res]
    ELSE IF ~in[i + 1].const THEN extractConstLoopTernary(Op, in, i - 1, res, has_res)
    ELSE LET x == ConstTernary(in[i + 1])
         IN  extractConstLoopTernary(Op, RemoveAt(in, i + 1), i - 1,
                                     IF has_res THEN TernaryApply(Op, res, x) ELSE x, TRUE)

extractConstColumnsTernary(Op, in) == extractConstLoopTernary(Op, in, Len(in) - 1, 0, FALSE)

\* a pointer to result_column, a ColumnUInt8 that holds ternary bytes
ResultColumn == [res |-> TRUE, col |-> <<>>]

\* a pointer to an argument column
ColumnPtrTo(x) == [res |-> FALSE, col |-> x]

\* the ValueGetter of ValueGetterBuilder::build(x), at row i
ValueGetter(x, i, result_data) ==
    IF x.res THEN makeValue(result_data[i])
    ELSE IF x.col.nullable THEN makeValueNullable(x.col.data[i], x.col.null_map[i])
    ELSE makeValue(x.col.data[i])

\* AssociativeGenericApplierImpl<Op, N>::apply(i) over the columns cols[k ..]
RECURSIVE AssociativeGenericApply(_, _, _, _, _)
AssociativeGenericApply(Op, cols, k, i, result_data) ==
    LET a == ValueGetter(cols[k], i, result_data)
    IN  IF k = Len(cols) THEN a
        ELSE IF TernaryIsSaturatedValue(Op, a) THEN a
        ELSE TernaryApply(Op, a, AssociativeGenericApply(Op, cols, k + 1, i, result_data))

\* OperationApplier<Op, AssociativeGenericApplierImpl>::apply
RECURSIVE GenericApplierApply(_, _, _)
GenericApplierApply(Op, in, result_data) ==
    IF Len(in) > 1
    THEN LET n == Min(BatchWidth, Len(in))
             cols == SubSeq(in, Len(in) - n + 1, Len(in))
             res == [i \in 1 .. Len(result_data) |->
                        AssociativeGenericApply(Op, cols, 1, i, result_data)]
         IN  GenericApplierApply(Op, SubSeq(in, 1, Len(in) - n) \o <<ResultColumn>>, res)
    ELSE result_data

\* bytes that freshly allocated memory may hold
FreshBytes == {0, 1, 2, 255}

\* executeForTernaryLogicImpl; the result type is nullable. fresh is what
\* the memory of ColumnUInt8::create(input_rows_count) holds, which nothing
\* initializes: with one argument and no constant the applier loop does not
\* run and these bytes are converted as they are
executeForTernaryLogicImpl(Op, arguments_, input_rows_count, fresh) ==
    LET e == extractConstColumnsTernary(Op, arguments_)
        const_3v_value == e.res
    IN  IF e.has_res /\ (e.in = <<>> \/ TernaryIsSaturatedValue(Op, const_3v_value))
        THEN [convertFromTernaryData(<<const_3v_value>>, TRUE) EXCEPT !.const = TRUE]
        ELSE LET const_column_holder ==
                     convertFromTernaryData([i \in 1 .. input_rows_count |-> const_3v_value],
                                            const_3v_value = Ternary.Null)
                 arguments == IF e.has_res THEN Append(e.in, const_column_holder) ELSE e.in
                 result_data == GenericApplierApply(Op,
                                    [k \in 1 .. Len(arguments) |-> ColumnPtrTo(arguments[k])],
                                    fresh)
             IN  convertFromTernaryData(result_data, TRUE)

\* argument columns of one row: values, nullable values, NULL over any value
TernaryVectorArgs ==
    {[const |-> FALSE, nullable |-> FALSE, data |-> <<v>>, null_map |-> <<>>] : v \in Bytes}
    \cup {[const |-> FALSE, nullable |-> TRUE, data |-> <<v>>, null_map |-> <<m>>] :
             v \in {0, 1}, m \in {0, 1}}

TernaryConstArgs ==
    {[const |-> TRUE, nullable |-> FALSE, data |-> <<v>>, null_map |-> <<>>] : v \in {0, 1}}
    \cup {[const |-> TRUE, nullable |-> TRUE, data |-> <<0>>, null_map |-> <<1>>]}

\* k columns that hold the same value, but for at most one of them, which
\* is any argument
TernaryNearUniform(k) ==
    {[i \in 1 .. k |-> IF i = j THEN x
                       ELSE [const |-> FALSE, nullable |-> FALSE, data |-> <<v>>, null_map |-> <<>>]] :
        v \in {0, 1}, j \in 1 .. k, x \in TernaryVectorArgs \cup TernaryConstArgs}

TernaryArguments ==
    UNION {[1 .. n -> TernaryVectorArgs \cup TernaryConstArgs] : n \in 2 .. 3}
    \cup UNION {TernaryNearUniform(k) : k \in {BatchWidth, BatchWidth + 1, BatchWidth + 2}}

TernaryCalls ==
    {Call("ternary", [Op |-> Op, arguments |-> a]) :
        Op \in {"and", "or"},
        a \in {x \in TernaryArguments : \E k \in 1 .. Len(x) : x[k].nullable}}

FTernary ==
    /\ Called("ternary")
    /\ \E fresh \in [1 .. 1 -> FreshBytes] :
          Return(executeForTernaryLogicImpl(fret.in.Op, fret.in.arguments, 1, fresh))

(***************************************************************************)
(* ColumnNullable::updateHashWithValue.  The SipHash state is the sequence *)
(* of the values fed to it by update(), oldest first; row n of the code is *)
(* element n + 1 of the data                                               *)
(***************************************************************************)
\* SipHash::update(x)
hashUpdate(hash_, x) == Append(hash_, x)

\* updateHashWithValue of a column of numbers: the value of row n is fed
vectorUpdateHashWithValue(column, n, hash_) == hashUpdate(hash_, column.data[n + 1])

updateHashWithValueFeedsNulls(column, n, hash_) ==
    LET arr == column.null_map.data
        h1  == hashUpdate(hash_, arr[n + 1])
    IN  vectorUpdateHashWithValue(column.nested_column, n, h1)

updateHashWithValue(column, n, hash_) ==
    LET arr == column.null_map.data
        h1  == hashUpdate(hash_, arr[n + 1])
    IN  IF arr[n + 1] = 0
        THEN vectorUpdateHashWithValue(column.nested_column, n, h1)
        ELSE h1

MaxHashRows == 2

\* nested values that coincide with null-flag bytes, under every flag byte
HashedColumns ==
    UNION {{NullableOf(FullOf("uint8", d), FullOf("uint8", m)) :
               d \in [1 .. k -> Bytes], m \in [1 .. k -> MaskBytes]} : k \in 1 .. MaxHashRows}

UpdateHashCalls ==
    {Call("updateHashWithValue", [column |-> c, n |-> n, hash |-> h]) :
        c \in HashedColumns, n \in 0 .. MaxHashRows - 1, h \in {<<>>, <<1>>}}

UpdateHashWithValueCalls ==
    {c \in UpdateHashCalls : c.in.n < SizeOf(c.in.column)}

FUpdateHashWithValue ==
    /\ Called("updateHashWithValue")
    /\ Return(updateHashWithValue(fret.in.column, fret.in.n, fret.in.hash))

(***************************************************************************)
(* ColumnNullable::getExtremes.  A Field is NullField or <<number>>        *)
(***************************************************************************)
FieldOf(x) == <<x>>

\* the kinds of nested column getExtremes recognises by typeid_cast
IntegerKinds == {"int8", "uint8"}

\* isNaN(x) of an integer type
isNaN(x) == FALSE

\* the loop of getExtremesFromNullableContent from row i on (rows from 1);
\* st holds has_not_null, has_not_nan, cur_min, cur_max
RECURSIVE getExtremesLoop(_, _, _, _)
getExtremesLoop(data, null_map, i, st) ==
    IF i > Len(data) THEN st
    ELSE LET x == data[i]
         IN  getExtremesLoop(data, null_map, i + 1,
                IF null_map[i] # 0 THEN st
                ELSE IF ~st.has_not_null
                THEN [has_not_null |-> TRUE, has_not_nan |-> ~isNaN(x),
                      cur_min |-> x, cur_max |-> x]
                ELSE IF isNaN(x) THEN st
                ELSE IF ~st.has_not_nan
                THEN [st EXCEPT !.cur_min = x, !.cur_max = x, !.has_not_nan = TRUE]
                ELSE IF x < st.cur_min THEN [st EXCEPT !.cur_min = x]
                ELSE IF x > st.cur_max THEN [st EXCEPT !.cur_max = x]
                ELSE st)

\* getExtremesFromNullableContent<T>(col, null_map, min, max); min_ and max_
\* are the Fields as the caller left them
getExtremesFromNullableContentSeesNulls(col, null_map, min_, max_) ==
    IF Len(col.data) = 0 THEN [min |-> NullField, max |-> NullField]
    ELSE LET st == getExtremesLoop(col.data, [i \in DOMAIN null_map |-> 0], 1,
                       [has_not_null |-> FALSE, has_not_nan |-> FALSE,
                        cur_min |-> 0, cur_max |-> 0])
         IN  IF st.has_not_null
             THEN [min |-> FieldOf(st.cur_min), max |-> FieldOf(st.cur_max)]
             ELSE [min |-> min_, max |-> max_]

getExtremesFromNullableContent(col, null_map, min_, max_) ==
    IF Len(col.data) = 0 THEN [min |-> NullField, max |-> NullField]
    ELSE LET st == getExtremesLoop(col.data, null_map, 1,
                       [has_not_null |-> FALSE, has_not_nan |-> FALSE,
                        cur_min |-> 0, cur_max |-> 0])
         IN  IF st.has_not_null
             THEN [min |-> FieldOf(st.cur_min), max |-> FieldOf(st.cur_max)]
             ELSE [min |-> min_, max |-> max_]

\* ColumnNullable::getExtremes(min, max)
getExtremes(column) ==
    IF column.nested_column.kind \in IntegerKinds
    THEN getExtremesFromNullableContent(column.nested_column, column.null_map.data,
                                        NullField, NullField)
    ELSE [min |-> NullField, max |-> NullField]

MaxExtremeRows == 3

ExtremeValues == {-1, 0, 2}

ExtremeColumnsOf(kind, vals) ==
    UNION {{NullableOf(FullOf(kind, d), FullOf("uint8", m)) :
               d \in [1 .. k -> vals], m \in [1 .. k -> {0, 1}]} : k \in 0 .. MaxExtremeRows}

ExtremeColumns == ExtremeColumnsOf("int8", ExtremeValues) \cup ExtremeColumnsOf("uint8", Bytes)

GetExtremesCalls ==
    {Call("getExtremes", [column |-> c]) : c \in ExtremeColumns \cup NullableObjects}

FGetExtremes ==
    /\ Called("getExtremes")
    /\ Return(getExtremes(fret.in.column))

(***************************************************************************)
(* The specification of the functions of their arguments alone             *)
(***************************************************************************)
\* the calls made, one function and one list of arguments each
FnCalled ==
    \/ fret \in DecimalCompareAtCalls
    \/ \E T \in FloatTypes \cup IntTypes : fret \in VectorCompareAtCalls(T)
    \/ fret \in DecimalInsertRangeFromCalls
    \/ fret \in LogicalCalls
    \/ fret \in ApplyNullMapCalls
    \/ fret \in VariadicAddCalls
    \/ fret \in ColumnNullableCalls
    \/ fret \in MakeNullableCalls
    \/ fret \in TernaryCalls
    \/ fret \in UpdateHashWithValueCalls
    \/ fret \in GetExtremesCalls

FnInit ==
    /\ FnCalled
    /\ HTIdle /\ NullableIdle /\ HoldersIdle /\ AggregateIdle

FnNext ==
    \/ FDecimalCompareAt /\ UNCHANGED <<htVars, nullableVars, cowVars, aggVars>>
    \/ FVectorCompareAt /\ UNCHANGED <<htVars, nullableVars, cowVars, aggVars>>
    \/ FDecimalInsertRangeFrom /\ UNCHANGED <<htVars, nullableVars, cowVars, aggVars>>
    \/ FLogical /\ UNCHANGED <<htVars, nullableVars, cowVars, aggVars>>
    \/ FApplyNullMap /\ UNCHANGED <<htVars, nullableVars, cowVars, aggVars>>
    \/ FVariadicAdd /\ UNCHANGED <<htVars, nullableVars, cowVars, aggVars>>
    \/ FColumnNullable /\ UNCHANGED <<htVars, nullableVars, cowVars, aggVars>>
    \/ FMakeNullable /\ UNCHANGED <<htVars, nullableVars, cowVars, aggVars>>
    \/ FTernary /\ UNCHANGED <<htVars, nullableVars, cowVars, aggVars>>
    \/ FUpdateHashWithValue /\ UNCHANGED <<htVars, nullableVars, cowVars, aggVars>>
    \/ FGetExtremes /\ UNCHANGED <<htVars, nullableVars, cowVars, aggVars>>

SpecFn == FnInit /\ [][FnNext]_vars

Sign(x) == IF x > 0 THEN 1 ELSE IF x < 0 THEN -1 ELSE 0

\* C23: ColumnDecimal::compareAt compares the scaled numeric values, never
\* the raw representations: for raw values a and b at scales s1 and s2 it
\* returns the sign of a/10^s1 - b/10^s2 (the sign of a*10^s2 - b*10^s1),
\* and compareAt(n, m, other) = -other.compareAt(m, n, self).
C23_DecimalComparesScaledValues ==
    Returned_("decimalCompareAt") =>
        LET in == fret.in
            a == in.c.data[in.n + 1]
            b == in.rhs.data[in.m + 1]
        IN  /\ fret.out.res = Sign(a * Pow10(in.rhs.scale) - b * Pow10(in.c.scale))
            /\ fret.out.res = -fret.out.back

\* raw 150 at scale 2 against raw 1500 at scale 3
C23_Witness ==
    /\ Returned_("decimalCompareAt")
    /\ fret.in.c.data[fret.in.n + 1] = 150 /\ fret.in.c.scale = 2
    /\ fret.in.rhs.data[fret.in.m + 1] = 1500 /\ fret.in.rhs.scale = 3
    /\ fret.out.res = 0

\* C24 as stated: compareAt on a numeric vector column returns a value in
\* {-1, 0, 1} for every pair of rows and every nan_direction_hint.
C24_Original ==
    Returned_("vectorCompareAt") => fret.out \in {-1, 0, 1}

\* C24: compareAt on a numeric vector column is a three-way compare.  For an
\* integer element type it returns -1, 0 or 1 and does not depend on the
\* hint.  For a floating-point type NaN against NaN gives 0, a NaN on the
\* left against a non-NaN gives nan_direction_hint itself and a NaN on the
\* right gives -nan_direction_hint, so a NaN compares larger than every
\* non-NaN value when the hint is > 0 and smaller when it is < 0; two
\* non-NaN values give -1, 0 or 1.  The result is in {-1, 0, 1} whenever
\* the hint is -1, 0 or 1.
C24_ThreeWayCompare ==
    Returned_("vectorCompareAt") =>
        LET in == fret.in
            a == in.data[in.n + 1]
            b == in.rhs[in.m + 1]
        IN  IF in.T \in IntTypes
            THEN /\ fret.out = Sign(a - b)
                 /\ \A h \in VecHints :
                       VectorCompareAt(in.T, in.data, in.n, in.m, in.rhs, h) = fret.out
            ELSE /\ (isnan(a) /\ isnan(b)) => fret.out = 0
                 /\ (isnan(a) /\ ~isnan(b)) => fret.out = in.hint
                 /\ (~isnan(a) /\ isnan(b)) => fret.out = -in.hint
                 /\ (~isnan(a) /\ ~isnan(b)) =>
                       /\ fret.out = 1 <=> FloatLt(b, a)
                       /\ fret.out = -1 <=> FloatLt(a, b)
                       /\ fret.out = 0 <=> a = b
                 /\ in.hint \in {-1, 0, 1} => fret.out \in {-1, 0, 1}

\* a NaN on the left against the number 2 with the hint 2
C24_Witness ==
    /\ Returned_("vectorCompareAt")
    /\ fret.in.T = "Float64"
    /\ fret.in.data[fret.in.n + 1] = NaN
    /\ fret.in.rhs[fret.in.m + 1] = Num(2)
    /\ fret.in.hint = 2
    /\ fret.out = 2

(***************************************************************************)
(* Iteration of the hash table (checked under SpecHT)                      *)
(***************************************************************************)
Visited == iterate(buf, size_degree, begin(buf, size_degree, has_zero))

VisitedKeys == [i \in 1 .. Len(Visited) |-> lookupResultGetKey(Visited[i])]

\* the table that holds the same keys, inserted in increasing key order
RECURSIVE insertAscending(_, _)
insertAscending(t, k) ==
    IF k > MaxKey THEN t
    ELSE IF k \in emplaced
         THEN insertAscending(emplaceNonZero(t.buf, t.m_size, t.size_degree, k, FALSE), k + 1)
         ELSE insertAscending(t, k + 1)

SameKeysAscending ==
    insertAscending([buf |-> [i \in 0 .. bufSize(InitialSizeDegree) - 1 |-> 0],
                     m_size |-> 0, size_degree |-> InitialSizeDegree], 1)

VisitsInBucketOrder ==
    LET v    == Visited
        n    == Len(v)
        keys == [i \in 1 .. n |-> lookupResultGetKey(v[i])]
    IN  /\ \A i \in 1 .. n : v[i] = ZeroSlot <=> (has_zero /\ i = 1)
        /\ \A i, j \in 1 .. n : i < j => v[i] < v[j]
        /\ \A i \in 1 .. n : v[i] # ZeroSlot => buf[v[i]] # 0
        /\ \A p \in DOMAIN buf : buf[p] # 0 => \E i \in 1 .. n : v[i] = p
        /\ n = size
        /\ {keys[i] : i \in 1 .. n} = emplaced
        /\ \A i, j \in 1 .. n : i # j => keys[i] # keys[j]

\* C25 as stated: ... and the order is independent of insertion order: a
\* table holding the same keys, inserted in increasing key order, is visited
\* in the same key order.
C25_Original ==
    /\ VisitsInBucketOrder
    /\ LET t == SameKeysAscending
           v == iterate(t.buf, t.size_degree, begin(t.buf, t.size_degree, has_zero))
       IN  VisitedKeys = [i \in 1 .. Len(v) |-> IF v[i] = ZeroSlot THEN 0 ELSE t.buf[v[i]]]

\* C25: iterating from begin() to end() visits the zero-slot cell first when
\* it is present and then the occupied buckets in increasing bucket index,
\* skipping empty buckets; every stored key is visited exactly once, so the
\* number of cells visited equals size().  The order is that of the buckets:
\* it depends on the insertion order wherever colliding keys took their
\* buckets in order of arrival.
C25_IterationVisitsBuckets == VisitsInBucketOrder

\* the zero key and two keys, visited with an empty bucket skipped between
\* them, in a table that has been resized
C25_Witness ==
    /\ has_zero
    /\ size_degree > InitialSizeDegree
    /\ Len(Visited) >= 3
    /\ Visited[1] = ZeroSlot
    /\ \E i \in 2 .. Len(Visited) - 1 : Visited[i + 1] > Visited[i] + 1
    /\ \E i \in 2 .. Len(Visited) - 1 : VisitedKeys[i] > VisitedKeys[i + 1]

\* C26 as stated: ColumnDecimal::insertRangeFrom(src, start, length): for all start and
\* length whose sum start + length exceeds src.size() the call fails with an
\* out-of-bound parameter error and leaves the receiver unchanged; otherwise
\* the receiver grows by exactly length rows equal to src[start, start+length)
\* and its earlier rows are unchanged.
C26_Original ==
    Returned_("decimalInsertRangeFrom") =>
        LET in == fret.in
        IN  IF in.start + in.length > DecimalSize(in.src)
            THEN /\ fret.out.threw = PARAMETER_OUT_OF_BOUND
                 /\ fret.out.col = in.c
            ELSE /\ fret.out.threw = NoError
                 /\ fret.out.col.data =
                       in.c.data \o SubSeq(in.src.data, in.start + 1, in.start + in.length)

\* the operator folded over the truth values of the arguments at row i
RECURSIVE FoldTruth(_, _, _)
FoldTruth(Op, arguments_, i) ==
    LET a == arguments_[1]
        t == toBool(IF a.const THEN a.data[1] ELSE a.data[i])
    IN  IF Len(arguments_) = 1 THEN t
        ELSE OpApply(Op, t, FoldTruth(Op, Tail(arguments_), i))

ResultAt(col, i) == IF col.const THEN col.data[1] ELSE col.data[i]

\* C27 as stated: for and / or / xor applied to two or more numeric argument columns,
\* in any mix and order of constant and non-constant columns and with more
\* non-constant arguments than the batch width of 10, the truth value of
\* result row i is the operator folded over the truth values (value != 0)
\* of all arguments at row i.
C27_Original ==
    Returned_("logical") =>
        \A i \in 1 .. fret.out.s :
            toBool(ResultAt(fret.out, i)) = FoldTruth(fret.in.Op, fret.in.arguments, i)

\* C28 as stated: for every byte value of the mask entries, after
\* applyNullMap(map) row i is null exactly when it was already null or
\* map[i] is nonzero; after applyNegatedNullMap(map) row i is null exactly
\* when it was already null or map[i] is zero; the nested values are
\* unchanged, and a map of another length fails with a logical error and
\* changes nothing.
C28_Original ==
    Returned_("applyNullMap") =>
        LET c == fret.in.c
            map == fret.in.map
            r == fret.out
        IN  IF Len(map) # NullableSize(c)
            THEN r = Throw(LOGICAL_ERROR, c)
            ELSE /\ r.threw = NoError
                 /\ r.col.nested_column = c.nested_column
                 /\ Len(r.col.null_map) = NullableSize(c)
                 /\ \A i \in 0 .. NullableSize(c) - 1 :
                       isNullAt(r.col, i) <=>
                           \/ isNullAt(c, i)
                           \/ (IF fret.in.negative THEN map[i + 1] = 0 ELSE map[i + 1] # 0)

\* the buckets on the cyclic probe path from bucket p0 up to bucket p
ProbePath(deg, p0, p) ==
    {(p0 + d) % bufSize(deg) : d \in 0 .. ((p - p0 + bufSize(deg)) % bufSize(deg))}

NoKeyTwice(b) == \A p, q \in Occupied(b) : b[p] = b[q] => p = q

ProbeChainsUnbroken(b, deg) ==
    \A p \in Occupied(b) : ProbePath(deg, place(deg, hash(b[p])), p) \subseteq Occupied(b)

\* C29: after every completed emplace, including those that resize, no key
\* occupies two buckets, and for every occupied bucket p holding key k all
\* buckets on the cyclic linear-probe path from hash(k) & mask up to p are
\* occupied: the two reinsertion passes of resize leave no key stranded
\* behind an empty bucket.
C29_ProbeChainInvariant ==
    Returned => NoKeyTwice(buf) /\ ProbeChainsUnbroken(buf, size_degree)

\* a resize whose second pass moved a key of the wrapped-around tail, and
\* after it a key that still sits away from its home bucket
C29_Witness ==
    /\ Returned /\ ret.resized
    /\ \E p \in Occupied(buf) : p # place(size_degree, hash(buf[p]))
    /\ LET pre == ret.pre
           ins == [pre.buf EXCEPT ![findCell(pre.buf, pre.size_degree, ret.key,
                                             place(pre.size_degree, hash(ret.key)))] = ret.key]
       IN  resize(ins, pre.size_degree) # resizeNoTail(ins, pre.size_degree)

\* C30: AggregateFunctionNullVariadic::add on a row where any nullable
\* argument column is null leaves the whole state unchanged (flag and nested
\* state) and does not call the nested function; on a row where no argument
\* is null it sets the flag and passes the nested function the nested
\* columns of the nullable arguments and the non-nullable arguments as they
\* are, in argument order.
C30_VariadicSkipsRowWithAnyNull ==
    Returned_("variadicAdd") =>
        LET a == fret.in.arguments
            row_num == fret.in.row_num
            p == fret.in.place
            r == fret.out
            anyNull == \E i \in 1 .. Len(a) : a[i].nullable /\ a[i].col.null_map[row_num + 1] # 0
        IN  IF anyNull
            THEN r.place = p /\ r.passed = NotCalled
            ELSE /\ Len(r.passed) = Len(a)
                 /\ \A i \in 1 .. Len(a) :
                       r.passed[i] = IF a[i].nullable THEN a[i].col.nested_column ELSE a[i].col
                 /\ getFlag(fret.in.rin, r.place)
                 /\ r.place.nested =
                       Append(p.nested, [i \in 1 .. Len(a) |-> r.passed[i].data[row_num + 1]])

\* three arguments, the last one nullable and null at the row: the state that
\* had seen a row is left as it was
C30_Witness ==
    /\ Returned_("variadicAdd")
    /\ Len(fret.in.arguments) = 3
    /\ ~fret.in.arguments[1].nullable
    /\ fret.in.arguments[2].nullable /\ fret.in.arguments[2].col.null_map[fret.in.row_num + 1] = 0
    /\ fret.in.arguments[3].nullable /\ fret.in.arguments[3].col.null_map[fret.in.row_num + 1] # 0
    /\ fret.in.place.nested # <<>>
    /\ fret.out.place = fret.in.place

\* C31: no ColumnNullable wraps a const column or a const null map:
\* construction with a const nested column materializes it into a full
\* column of the same size and values, construction with a const null map or
\* with a nested column that cannot be inside a nullable (after
\* materialization) fails with an illegal-column error; makeNullable of a
\* const column yields a const column of the same size wrapping a nullable
\* one, never a nullable wrapping a const.
C31_NullableNeverWrapsConst ==
    /\ Returned_("ColumnNullable") =>
          LET n == fret.in.nested_column
              m == fret.in.null_map
              inner == IF n.kind = "const" THEN n.data ELSE n
              r == fret.out
          IN  IF m.kind = "const" \/ inner.kind = "nullable"
              THEN r.threw = ILLEGAL_COLUMN
              ELSE /\ r.threw = NoError
                   /\ r.col.kind = "nullable"
                   /\ r.col.nested_column.kind = inner.kind
                   /\ r.col.null_map = m
                   /\ IF n.kind = "const"
                      THEN /\ Len(r.col.nested_column.data) = n.s
                           /\ \A i \in 1 .. n.s : r.col.nested_column.data[i] = inner.data[1]
                      ELSE r.col.nested_column = n
    /\ (Returned_("makeNullable") /\ fret.in.column.kind = "const") =>
          LET c == fret.in.column
              r == fret.out
          IN  /\ r.threw = NoError
              /\ r.col.kind = "const" /\ r.col.s = c.s
              /\ r.col.data.kind = "nullable"
              /\ r.col.data.nested_column.kind = "decimal"
              /\ r.col.data.nested_column.data = (IF c.data.kind = "nullable"
                                                  THEN c.data.nested_column.data
                                                  ELSE c.data.data)
              /\ r.col.data.null_map.kind = "uint8"

\* a const decimal of two rows handed to the constructor with a full null
\* map comes out as a full nested column of two equal rows
C31_Witness ==
    /\ Returned_("ColumnNullable")
    /\ fret.in.nested_column = ConstOf(FullOf("decimal", <<1>>), 2)
    /\ fret.in.null_map = FullOf("uint8", <<0, 1>>)
    /\ fret.out = Ok(NullableOf(FullOf("decimal", <<1, 1>>), FullOf("uint8", <<0, 1>>)))

\* C32 as stated: every ColumnNullable, from the moment its constructor
\* returns, has a null map of the same length as its nested column, and a
\* nested column and a null map of different lengths are rejected.
C32_Original ==
    Returned_("ColumnNullable") =>
        /\ fret.out.threw = NoError =>
              SizeOf(fret.out.col.null_map) = SizeOf(fret.out.col.nested_column)
        /\ SizeOf(fret.in.null_map) # SizeOf(fret.in.nested_column) =>
              fret.out.threw # NoError

\* C33 as stated: every row of the column produced by and / or / xor without
\* nullable arguments is exactly 0 or 1, for every argument combination,
\* also for a single non-constant UInt8 argument that holds other bytes
\* combined with a neutral constant.
C33_Original ==
    Returned_("logical") =>
        \A i \in 1 .. fret.out.s : ResultAt(fret.out, i) \in {0, 1}

\* the SQL three-valued value of an argument at row i, as a ternary byte
ArgTernary(a, i) ==
    LET r == IF a.const THEN 1 ELSE i
    IN  IF a.nullable /\ a.null_map[r] # 0 THEN Ternary.Null
        ELSE IF a.data[r] # 0 THEN Ternary.True ELSE Ternary.False

\* AND: false if any argument is false, else null if any is null, else
\* true; OR: true if any is true, else null if any is null, else false
ThreeValued(Op, arguments_, i) ==
    LET vals == {ArgTernary(arguments_[k], i) : k \in 1 .. Len(arguments_)}
        absorbing == IF Op = "and" THEN Ternary.False ELSE Ternary.True
        neutral == IF Op = "and" THEN Ternary.True ELSE Ternary.False
    IN  IF absorbing \in vals THEN absorbing
        ELSE IF Ternary.Null \in vals THEN Ternary.Null
        ELSE neutral

\* the value of result row i, as a ternary byte
ResultTernary(col, i) ==
    LET r == IF col.const THEN 1 ELSE i
    IN  IF col.null_map[r] # 0 THEN Ternary.Null
        ELSE IF col.data[r] # 0 THEN Ternary.True ELSE Ternary.False

\* C34 as stated: with a nullable result type, and / or over any number of
\* arguments (nullable, non-nullable, constant, constant NULL, more than the
\* batch width of 10) yields per row the SQL three-valued result, the null
\* map set exactly on the rows whose result is null.
C34_Original ==
    Returned_("ternary") =>
        ResultTernary(fret.out, 1) = ThreeValued(fret.in.Op, fret.in.arguments, 1)

\* the table a constructor leaves behind with a buffer of 2^deg cells
FreshTable(deg) ==
    [buf |-> [i \in 0 .. bufSize(deg) - 1 |-> 0], m_size |-> 0, size_degree |-> deg,
     has_zero |-> FALSE]

\* C35: after clear() on a table holding any set of keys size() is 0, find
\* and has miss for every key including the zero key, iteration is empty and
\* the bucket count is unchanged; the table is in the state of a fresh table
\* of that bucket count, so every sequence of emplace calls afterwards
\* behaves as on a fresh one.
C35_ClearLeavesFreshTable ==
    ret.op = "clear" =>
        /\ size = 0
        /\ \A k \in Keys : find(k) = NullResult /\ ~has(k)
        /\ Visited = <<>>
        /\ size_degree = ret.pre.size_degree
        /\ DOMAIN buf = 0 .. bufSize(ret.pre.size_degree) - 1
        /\ Pre = FreshTable(ret.pre.size_degree)

\* clear() on a table that had grown and held the zero key and other keys
C35_Witness ==
    /\ ret.op = "clear"
    /\ ret.pre.has_zero /\ ret.pre.m_size >= 3
    /\ ret.pre.size_degree > InitialSizeDegree

\* C39: a table constructed with reserve_for_num_elements = n has a
\* power-of-two bucket count whose maxFill() is at least n, of degree
\* max(initial degree, floor(log2(n - 1)) + 2) for n > 1, so emplacing up to
\* n distinct keys afterwards triggers no resize: a step that leaves at most
\* n keys in a table of the constructed degree keeps the bucket count.
C39_ReserveAvoidsResize ==
    [][/\ maxFill(set(reserve)) >= reserve
       /\ reserve > 1 =>
             \E d \in 0 .. MaxDegree :
                /\ Pow2(d) <= reserve - 1 /\ reserve - 1 < Pow2(d + 1)
                /\ set(reserve) = IF InitialSizeDegree > d + 2 THEN InitialSizeDegree ELSE d + 2
       /\ (size_degree = set(reserve) /\ m_size' <= reserve) =>
             /\ size_degree' = size_degree
             /\ DOMAIN buf' = 0 .. bufSize(set(reserve)) - 1]_vars

\* a table reserved for three elements holds three keys, the last of them
\* just emplaced, in the buffer it was constructed with
C39_Witness ==
    /\ reserve = 3 /\ size = 3
    /\ Returned /\ ret.inserted /\ ret.key # 0 /\ ~ret.resized
    /\ ret.pre.size_degree = set(3) /\ size_degree = set(3)
    /\ set(3) > InitialSizeDegree

(***************************************************************************)
(* The buffers a probe loop can see: the table between calls, the buffer   *)
(* inside emplaceNonZeroImpl after the new cell is built, and the buffers  *)
(* of resize() after realloc and after each reinsert                       *)
(***************************************************************************)
\* the buffers of the first loop of resize, from index i on
RECURSIVE resizePass1States(_, _, _, _)
resizePass1States(b, deg, i, old_size) ==
    IF i >= old_size THEN {b}
    ELSE {b} \cup resizePass1States(IF b[i] # 0 THEN reinsert(b, deg, i) ELSE b,
                                    deg, i + 1, old_size)

\* the buffers of the second loop of resize, from index i on
RECURSIVE resizePass2States(_, _, _)
resizePass2States(b, deg, i) ==
    IF i < bufSize(deg) /\ b[i] # 0
    THEN {b} \cup resizePass2States(reinsert(b, deg, i), deg, i + 1)
    ELSE {b}

\* every buffer resize() goes through, the reallocated one first
resizeStates(b, deg) ==
    LET new_deg == increaseSize(deg)
        grown   == realloc(b, bufSize(deg), bufSize(new_deg))
        pass1   == resizePass1(grown, new_deg, 0, bufSize(deg))
    IN  resizePass1States(grown, new_deg, 0, bufSize(deg))
            \cup resizePass2States(pass1, new_deg, bufSize(deg))

\* new(&buf[place_value]) Cell(key, *this) of the last emplace, before its
\* overflow test
cellBuilt ==
    [ret.pre.buf EXCEPT ![findCell(ret.pre.buf, ret.pre.size_degree, ret.key,
                                   place(ret.pre.size_degree, hash(ret.key)))] = ret.key]

HasEmptyBucket(b) == \E i \in DOMAIN b : b[i] = 0

\* the last emplace built a cell for a new non-zero key and found the table
\* overflowing
Overflowed ==
    /\ ret.op = "emplace" /\ ret.key # 0 /\ ret.inserted
    /\ overflow(ret.pre.size_degree, ret.pre.m_size + 1)

\* C36 as stated: every probe loop terminates: the bucket array contains an
\* empty bucket in every reachable state between calls, in the state inside
\* emplace before its resize, and in the states during resize.
C36_Original ==
    /\ buf # nullptr => HasEmptyBucket(buf)
    /\ Overflowed => HasEmptyBucket(cellBuilt)
    /\ ret.resized => \A b \in resizeStates(cellBuilt, ret.pre.size_degree) : HasEmptyBucket(b)

\* what one call fed to the hasher: the updates after those it started with
FedBy(c_in, out) == SubSeq(out, Len(c_in.hash) + 1, Len(out))

\* the calls on a column of one row: every flag byte over every nested byte
OneRowHashCalls == {c \in UpdateHashWithValueCalls : SizeOf(c.in.column) = 1}

\* C37: updateHashWithValue(n, hasher) feeds the hasher the null-flag byte
\* of row n always and then the nested value only when the row is not null,
\* so the update sequence of a null row never equals that of a non-null row,
\* whatever bytes the nested column holds under the null row.
C37_HashSeparatesNullRows ==
    Returned_("updateHashWithValue") =>
        LET c    == fret.in.column
            n    == fret.in.n
            flag == c.null_map.data[n + 1]
            upd  == FedBy(fret.in, fret.out)
        IN  /\ SubSeq(fret.out, 1, Len(fret.in.hash)) = fret.in.hash
            /\ upd = IF flag = 0 THEN <<0, c.nested_column.data[n + 1]>> ELSE <<flag>>
            /\ \A o \in OneRowHashCalls :
                  (flag = 0) # (o.in.column.null_map.data[1] = 0) =>
                      upd # FedBy(o.in, updateHashWithValue(o.in.column, 0, o.in.hash))

\* a null row whose nested byte equals the flag byte a non-null row feeds
\* first, hashed after an earlier update
C37_Witness ==
    /\ Returned_("updateHashWithValue")
    /\ fret.in.n = 1 /\ fret.in.hash = <<1>>
    /\ fret.in.column.null_map.data = <<0, 255>>
    /\ fret.in.column.nested_column.data = <<1, 0>>
    /\ fret.out = <<1, 255>>

\* the values of the rows whose null-map byte is 0
NonNullValues(column) ==
    {column.nested_column.data[i] :
        i \in {j \in DOMAIN column.nested_column.data : column.null_map.data[j] = 0}}

\* C38: getExtremes over an integer nested column returns (Null, Null) when
\* the column is empty or every row is null, and otherwise the minimum and
\* the maximum over exactly the non-null rows; values stored under null rows
\* never influence the result.
C38_ExtremesOverNonNullRows ==
    (Returned_("getExtremes") /\ fret.in.column.nested_column.kind \in IntegerKinds) =>
        LET S == NonNullValues(fret.in.column)
        IN  IF S = {}
            THEN fret.out = [min |-> NullField, max |-> NullField]
            ELSE /\ fret.out.min # NullField /\ fret.out.max # NullField
                 /\ fret.out.min[1] \in S /\ fret.out.max[1] \in S
                 /\ \A x \in S : fret.out.min[1] <= x /\ x <= fret.out.max[1]

\* three rows: a null row holding a value below the minimum between two
\* non-null rows, the larger first
C38_Witness ==
    /\ Returned_("getExtremes")
    /\ fret.in.column.nested_column = FullOf("int8", <<2, -1, 0>>)
    /\ fret.in.column.null_map.data = <<0, 1, 0>>
    /\ fret.out = [min |-> FieldOf(0), max |-> FieldOf(2)]

=============================================================================
